---- MODULE Spec2Model ----
(***************************************************************************)
(* Sprint lifecycle of the DailySummaryBot: the command parser             *)
(* (sprint_summary/events/mod.rs), the state mutation of a command         *)
(* (sprint_summary/mod.rs, save_sprint_state), ticket reconciliation and   *)
(* classification (ticket_sources/mod.rs, ticket_summary.rs) and the       *)
(* lambda handler that strings them together (main.rs).                    *)
(*                                                                         *)
(* Dates.  The program keeps dates as "%m/%d/%y" strings.  A date string   *)
(* is modelled by an integer: n >= 0 is the string that names day n, and   *)
(* BadDate is a string that "%m/%d/%y" does not parse.                     *)
(***************************************************************************)
EXTENDS Integers, Sequences, FiniteSets, TLC

\* ------------------------------------------------------------------ bounds
MaxDay == 1

MaxHistory == 1
\* The collaborator calls of one invocation are numbered 1..MaxFail.
MaxFail == 11
\* The longest ticket list handed to the classifier.
MaxTickets == 3

\* --------------------------------------------------------- input alphabets
BadDate == -1

Names == {"S1", "S2"}

Channels == {"C1", "C2"}

Commands ==
  {"/sprint-kickoff", "/sprint-kickoff-confirm", "/sprint-cancel",
   "/sprint-end", "/sprint-check-in", "/sprint-preview"}

TRELLO_BOARD_ID == "board"

DAILY_SUMMARY_TIME == "cron(0 3 * * ? *)"

SPRINT_REVIEW_TIME == "cron(0 4 * * ? *)"

\* Option<T>: None is the empty tuple, Some(x) the one-element tuple.
None == << >>

Some(x) == << x >>

\* ------------------------------------------------------------------- dates
\* utils/date.rs print_current_date: today's date as a string.
print_current_date(now) == now

\* NaiveDate::parse_from_str(s, "%m/%d/%y")
ParseDate(s) == IF s >= 0 THEN [ok |-> TRUE, day |-> s] ELSE [ok |-> FALSE, day |-> 0]

\* utils/date.rs days_between: Err when either string does not parse,
\* else the signed number of days from the first to the second date.
days_between(d1, d2, now) ==
  LET past == IF d1 = None THEN ParseDate(print_current_date(now)) ELSE ParseDate(d1[1])
      future == ParseDate(d2)
  IN IF ~past.ok \/ ~future.ok
       THEN [ok |-> FALSE, val |-> 0]
       ELSE [ok |-> TRUE, val |-> future.day - past.day]

\* `x as u32` of an i64: the value modulo 2^32, kept as two 16-bit halves.
AsU32(x) == [hi |-> (x \div 65536) % 65536, lo |-> x % 65536]

U32LeZero(u) == u.hi = 0 /\ u.lo <= 0

\* ActiveSprintContext::days_until_end: panics when the end date is unparseable.
days_until_end(ctx, now) ==
  LET d == days_between(None, ctx.end_date, now)
  IN [panic |-> ~d.ok, val |-> AsU32(d.val)]

\* ---------------------------------------------------------------- commands
Cmd(type, name, end, ch) ==
  [type |-> type, sprint_name |-> name, end_date |-> end, channel_id |-> ch]

NoCmd == Cmd("None", "", BadDate, "")

SprintPreview(name, end, ch) == Cmd("SprintPreview", name, end, ch)

SprintKickoff(name, end, ch) == Cmd("SprintKickoff", name, end, ch)

SprintCheckIn == Cmd("SprintCheckIn", "", BadDate, "")

SprintEnd == Cmd("SprintEnd", "", BadDate, "")

SprintCancel == Cmd("SprintCancel", "", BadDate, "")

DailySummary == Cmd("DailySummary", "", BadDate, "")

SprintReview == Cmd("SprintReview", "", BadDate, "")

\* Result<SprintCommand>; status "Panic" is an unwinding panic.
Ok(cmd) == [status |-> "Ok", cmd |-> cmd, err |-> ""]

Err(msg) == [status |-> "Err", cmd |-> NoCmd, err |-> msg]

Panic(msg) == [status |-> "Panic", cmd |-> NoCmd, err |-> msg]

NotParsed == [status |-> "NotRun", cmd |-> NoCmd, err |-> ""]

\* ------------------------------------------------------------------ events
MessageTrigger(command, args, ch) ==
  [kind |-> "MessageTrigger", command |-> command, args |-> args, channel_id |-> ch]

ScheduledTrigger ==
  [kind |-> "ScheduledTrigger", command |-> "", args |-> << >>, channel_id |-> ""]

\* ----------------------------------------------------------------- history
\* A faulty variant: the scan starts at the oldest entry.
count_sprints_since_oldest(history, sprint_name) ==
  LET hits == {i \in 1..Len(history) : history[i].name = sprint_name}
  IN IF hits = {} THEN 0
     ELSE CHOOSE i \in hits : \A j \in hits : i <= j

\* CumulativeSprintContexts::count_sprints_since: position of the first
\* match scanning from the most recent entry, plus one; 0 without a match.
count_sprints_since(history, sprint_name) ==
  LET hits == {i \in 1..Len(history) : history[i].name = sprint_name}
  IN IF hits = {} THEN 0
     ELSE Len(history) - (CHOOSE i \in hits : \A j \in hits : j <= i) + 1

was_sprint_name_used(history, sprint_name) ==
  count_sprints_since(history, sprint_name) > 0

\* ------------------------------------------------------------------ parser
\* A faulty variant: the arms of /sprint-cancel and /sprint-end are swapped.
ParseActiveMessageSwapped(ev, rec) ==
  CASE ev.command \in {"/sprint-kickoff", "/sprint-kickoff-confirm"} ->
         Err("Sprint already in progress")
    [] ev.command = "/sprint-cancel" -> Ok(SprintEnd)
    [] ev.command = "/sprint-end" -> Ok(SprintCancel)
    [] ev.command = "/sprint-check-in" -> Ok(SprintCheckIn)
    [] OTHER -> Err("Invalid command")

\* events/mod.rs 24-34: a message while a sprint is active.
ParseActiveMessage(ev, rec) ==
  CASE ev.command \in {"/sprint-kickoff", "/sprint-kickoff-confirm"} ->
         Err("Sprint already in progress")
    [] ev.command = "/sprint-cancel" -> Ok(SprintCancel)
    [] ev.command = "/sprint-end" -> Ok(SprintEnd)
    [] ev.command = "/sprint-check-in" -> Ok(SprintCheckIn)
    [] OTHER -> Err("Invalid command")

\* events/mod.rs 35-41: the scheduled tick while a sprint is active.
ParseActiveScheduled(rec, now) ==
  LET d == days_until_end(rec, now)
  IN IF d.panic THEN Panic("Days until end should be parseable")
     ELSE IF U32LeZero(d.val) THEN Ok(SprintReview)
     ELSE Ok(DailySummary)

\* events/mod.rs 51-74: kickoff / preview while no sprint is active.  The
\* result of NaiveDate::parse_from_str on args[0] is computed and dropped,
\* and the name-reuse test is made on the command string.
ParseKickoff(ev, history) ==
  IF Len(ev.args) < 2 THEN Err("Text field does not contain enough parts")
  ELSE IF was_sprint_name_used(history, ev.command)
    THEN Err("Sprint name was already used")
  ELSE IF ev.command = "/sprint-kickoff-confirm"
    THEN Ok(SprintKickoff(ev.args[2], ev.args[1], ev.channel_id))
  ELSE Ok(SprintPreview(ev.args[2], ev.args[1], ev.channel_id))

\* A faulty variant: the scheduled tick is answered without an active sprint.
ParseInactiveScheduledOk(ev, history) ==
  IF ev.kind = "MessageTrigger"
    THEN CASE ev.command \in {"/sprint-cancel", "/sprint-end", "/sprint-check-in"} ->
                Err("No sprint in progress")
           [] ev.command \in {"/sprint-kickoff", "/sprint-kickoff-confirm"} ->
                ParseKickoff(ev, history)
           [] OTHER -> Err("Invalid command")
    ELSE Ok(DailySummary)

\* events/mod.rs 44-80: no sprint is active.
ParseInactive(ev, history) ==
  IF ev.kind = "MessageTrigger"
    THEN CASE ev.command \in {"/sprint-cancel", "/sprint-end", "/sprint-check-in"} ->
                Err("No sprint in progress")
           [] ev.command \in {"/sprint-kickoff", "/sprint-kickoff-confirm"} ->
                ParseKickoff(ev, history)
           [] OTHER -> Err("Invalid command")
    ELSE Err("No sprint in progress")

\* SprintEvents::try_into_sprint_command
try_into_sprint_command(ev, active_ctx, history, now) ==
  IF active_ctx # None
    THEN IF ev.kind = "MessageTrigger"
           THEN ParseActiveMessage(ev, active_ctx[1])
           ELSE ParseActiveScheduled(active_ctx[1], now)
    ELSE ParseInactive(ev, history)

\* ----------------------------------------------------------------- tickets
\* ticket_state.rs: TicketState, ordered by declaration.
BacklogIdeas == 0

InScope == 1

InvestigationDiscussion == 2

InProgress == 3

PendingRelease == 4

DemoFinalApproval == 5

Done == 6

\* ticket.rs PullRequest (the fields the classifier reads); mergeable is an
\* Option<bool>: "none", "true" or "false".
PullRequest(is_draft, merged, mergeable, failing) ==
  [is_draft |-> is_draft, merged |-> merged, mergeable |-> mergeable,
   failing_check_runs |-> failing]

\* A faulty variant: failing check runs do not block.
is_blocked_by_conflict_only(pr) ==
  pr.merged = FALSE /\ pr.mergeable # "true"

\* PullRequest::is_blocked
is_blocked(pr) ==
  pr.merged = FALSE /\ (pr.mergeable # "true" \/ pr.failing_check_runs > 0)

\* The name and the url the tracker keeps for a card.
NameOf(id) == << "name", id >>

UrlOf(id) == << "url", id >>

\* get_sprint_members(): tracker member id -> chat user; "m9" is unmapped.
user_mapping == [m \in {"m1"} |-> "U1"]

\* ticket_sources/mod.rs 90-93: the mapped members, unmapped ids dropped.
MembersOf(member_ids) ==
  LET F[i \in 0..Len(member_ids)] ==
        IF i = 0 THEN << >>
        ELSE IF member_ids[i] \in DOMAIN user_mapping
          THEN Append(F[i - 1], user_mapping[member_ids[i]])
        ELSE F[i - 1]
  IN F[Len(member_ids)]

\* ticket.rs TicketDetails as fetched from the tracker; pr is what the
\* code-review system answers for pr_url (None when the ticket has no pr_url).
TicketDetails(id, state, is_goal, pr) ==
  [id |-> id, name |-> NameOf(id), url |-> UrlOf(id), member_ids |-> << "m1", "m9" >>,
   state |-> state, is_goal |-> is_goal, pr |-> pr]

\* sprint_records.rs DailyTicketContext
DailyTicketContext(id, state, is_goal, added_on, added_in_sprint, last_moved_on) ==
  [id |-> id, name |-> NameOf(id), url |-> UrlOf(id), state |-> state,
   is_goal |-> is_goal, added_on |-> added_on,
   added_in_sprint |-> added_in_sprint, last_moved_on |-> last_moved_on]

\* A faulty variant: a new ticket's age is looked up in the history under the
\* current sprint's name.
new_context_aged(ticket_details, previous_version, current_sprint_name, history, now) ==
  IF previous_version # None
    THEN LET previous == previous_version[1]
         IN [added_on |-> previous.added_on,
             added_in_sprint |-> previous.added_in_sprint,
             sprint_age |-> count_sprints_since(history, previous.added_in_sprint),
             last_moved_on |-> IF previous.state # ticket_details.state
                                 THEN print_current_date(now)
                                 ELSE previous.last_moved_on]
    ELSE [added_on |-> print_current_date(now),
          added_in_sprint |-> current_sprint_name,
          sprint_age |-> count_sprints_since(history, current_sprint_name),
          last_moved_on |-> print_current_date(now)]

\* A faulty variant: every reconciliation counts as a move.
new_context_touched(ticket_details, previous_version, current_sprint_name, history, now) ==
  IF previous_version # None
    THEN LET previous == previous_version[1]
         IN [added_on |-> previous.added_on,
             added_in_sprint |-> previous.added_in_sprint,
             sprint_age |-> count_sprints_since(history, previous.added_in_sprint),
             last_moved_on |-> print_current_date(now)]
    ELSE [added_on |-> print_current_date(now),
          added_in_sprint |-> current_sprint_name,
          sprint_age |-> 0,
          last_moved_on |-> print_current_date(now)]

\* ticket_sources/mod.rs TicketContext::new_context
new_context(ticket_details, previous_version, current_sprint_name, history, now) ==
  IF previous_version # None
    THEN LET previous == previous_version[1]
         IN [added_on |-> previous.added_on,
             added_in_sprint |-> previous.added_in_sprint,
             sprint_age |-> count_sprints_since(history, previous.added_in_sprint),
             last_moved_on |-> IF previous.state # ticket_details.state
                                 THEN print_current_date(now)
                                 ELSE previous.last_moved_on]
    ELSE [added_on |-> print_current_date(now),
          added_in_sprint |-> current_sprint_name,
          sprint_age |-> 0,
          last_moved_on |-> print_current_date(now)]

\* previous_ticket_data.tickets.iter().find(|record| record.id == id)
FindPrevious(previous_ticket_data, id) ==
  LET hits == {i \in 1..Len(previous_ticket_data) : previous_ticket_data[i].id = id}
  IN IF hits = {} THEN None
     ELSE Some(previous_ticket_data[CHOOSE i \in hits : \A j \in hits : i <= j])

\* A faulty variant: a live ticket is never marked as moved out of the sprint.
ReconcileLiveStays(ticket_details, previous_ticket_data, current_sprint_name, history, now) ==
  LET previous_version == FindPrevious(previous_ticket_data, ticket_details.id)
      context == new_context(ticket_details, previous_version, current_sprint_name,
                             history, now)
  IN [id |-> ticket_details.id,
      name |-> ticket_details.name,
      url |-> ticket_details.url,
      members |-> MembersOf(ticket_details.member_ids),
      state |-> ticket_details.state,
      is_goal |-> ticket_details.is_goal,
      pr |-> ticket_details.pr,
      moved_out_of_sprint |-> FALSE,
      sprint_age |-> context.sprint_age,
      added_on |-> context.added_on,
      added_in_sprint |-> context.added_in_sprint,
      last_moved_on |-> context.last_moved_on]

\* ticket_sources/mod.rs 70-96: one live ticket merged with its snapshot.
ReconcileLive(ticket_details, previous_ticket_data, current_sprint_name, history, now) ==
  LET previous_version == FindPrevious(previous_ticket_data, ticket_details.id)
      context == new_context(ticket_details, previous_version, current_sprint_name,
                             history, now)
  IN [id |-> ticket_details.id,
      name |-> ticket_details.name,
      url |-> ticket_details.url,
      members |-> MembersOf(ticket_details.member_ids),
      state |-> ticket_details.state,
      is_goal |-> ticket_details.is_goal,
      pr |-> ticket_details.pr,
      moved_out_of_sprint |-> previous_version # None /\ ticket_details.state <= InScope,
      sprint_age |-> context.sprint_age,
      added_on |-> context.added_on,
      added_in_sprint |-> context.added_in_sprint,
      last_moved_on |-> context.last_moved_on]

\* A faulty variant: the materialized ticket keeps the snapshot's state.
TicketFromRecordKeepsState(record) ==
  [id |-> record.id,
   name |-> record.name,
   url |-> record.url,
   members |-> << >>,
   state |-> record.state,
   is_goal |-> record.is_goal,
   pr |-> None,
   moved_out_of_sprint |-> TRUE,
   sprint_age |-> 0,
   added_on |-> record.added_on,
   added_in_sprint |-> record.added_in_sprint,
   last_moved_on |-> record.last_moved_on]

\* A faulty variant: the materialized ticket loses the card's name and url.
TicketFromRecordBare(record) ==
  [id |-> record.id,
   name |-> << >>,
   url |-> << >>,
   members |-> << >>,
   state |-> InScope,
   is_goal |-> record.is_goal,
   pr |-> None,
   moved_out_of_sprint |-> TRUE,
   sprint_age |-> 0,
   added_on |-> record.added_on,
   added_in_sprint |-> record.added_in_sprint,
   last_moved_on |-> record.last_moved_on]

\* ticket.rs From<&DailyTicketContext> for Ticket
TicketFromRecord(record) ==
  [id |-> record.id,
   name |-> record.name,
   url |-> record.url,
   members |-> << >>,
   state |-> InScope,
   is_goal |-> record.is_goal,
   pr |-> None,
   moved_out_of_sprint |-> TRUE,
   sprint_age |-> 0,
   added_on |-> record.added_on,
   added_in_sprint |-> record.added_in_sprint,
   last_moved_on |-> record.last_moved_on]

\* ticket.rs From<&Ticket> for DailyTicketContext
RecordFromTicket(ticket) ==
  [id |-> ticket.id, name |-> ticket.name, url |-> ticket.url, state |-> ticket.state,
   is_goal |-> ticket.is_goal, added_on |-> ticket.added_on,
   added_in_sprint |-> ticket.added_in_sprint, last_moved_on |-> ticket.last_moved_on]

SeqMap(Op(_), s) == [i \in 1..Len(s) |-> Op(s[i])]

SeqFilter(Keep(_), s) ==
  LET F[i \in 0..Len(s)] ==
        IF i = 0 THEN << >>
        ELSE IF Keep(s[i]) THEN Append(F[i - 1], s[i]) ELSE F[i - 1]
  IN F[Len(s)]

\* ticket_sources/mod.rs 98-103: snapshots without a live ticket.
OrphanedTickets(current_ticket_details, previous_ticket_data) ==
  LET current_ticket_ids == {current_ticket_details[i].id : i \in 1..Len(current_ticket_details)}
      IsOrphan(record) == record.id \notin current_ticket_ids
  IN SeqMap(TicketFromRecord, SeqFilter(IsOrphan, previous_ticket_data))

\* ticket_sources/mod.rs 68-103: the reconciled ticket list.
ResultTickets(current_ticket_details, previous_ticket_data, current_sprint_name, history, now) ==
  LET Live(d) == ReconcileLive(d, previous_ticket_data, current_sprint_name, history, now)
  IN SeqMap(Live, current_ticket_details)
       \o OrphanedTickets(current_ticket_details, previous_ticket_data)

\* --------------------------------------------------------------- classifier
\* A faulty variant: every ticket is pushed to the back.
prioritized_push_back(queue, ticket) == Append(queue, ticket)

\* ticket_summary.rs PrioritizedPush for VecDeque<Ticket>
prioritized_push(queue, ticket) ==
  IF ticket.is_goal THEN << ticket >> \o queue ELSE Append(queue, ticket)

\* A faulty variant: the ratio is not scaled to a percentage.
PercentageRatio(completed, total) == [num |-> completed, den |-> total]

\* completed as f64 / sprint_ticket_count as f64 * 100.0, kept as the
\* fraction num/den; den = 0 is the NaN of 0.0 / 0.0.
Percentage(completed, total) == [num |-> 100 * completed, den |-> total]

EmptySummary ==
  [demoes |-> << >>, blocked_prs |-> << >>, open_prs |-> << >>,
   open_tickets |-> << >>, deferred_tickets |-> << >>, completed_tickets |-> << >>,
   sprint_ticket_count |-> 0, open_ticket_count |-> 0, project_ticket_count |-> 0,
   project_ticket_count_in_scope |-> 0, completed_percentage |-> Percentage(0, 0)]

\* A faulty variant: a ticket awaiting its demo is not counted.
ClassifyOneUncountedDemo(acc, ticket) ==
  IF ticket.state = Done
    THEN [acc EXCEPT !.sprint_ticket_count = @ + 1,
                     !.completed_tickets = prioritized_push(@, ticket)]
  ELSE IF ticket.state <= InScope \/ ticket.moved_out_of_sprint
    THEN LET a1 == IF ticket.state = InScope
                     THEN [acc EXCEPT !.project_ticket_count_in_scope = @ + 1]
                     ELSE acc
         IN IF ticket.moved_out_of_sprint
              THEN [a1 EXCEPT !.sprint_ticket_count = @ + 1,
                              !.deferred_tickets = prioritized_push(@, ticket)]
              ELSE a1
  ELSE IF ticket.state = DemoFinalApproval
    THEN [acc EXCEPT !.demoes = prioritized_push(@, ticket)]
  ELSE LET a1 == [acc EXCEPT !.sprint_ticket_count = @ + 1]
       IN IF ticket.pr # None /\ ~ticket.pr[1].is_draft /\ is_blocked(ticket.pr[1])
            THEN [a1 EXCEPT !.blocked_prs = prioritized_push(@, ticket)]
          ELSE IF ticket.pr # None /\ ~ticket.pr[1].is_draft
            THEN [a1 EXCEPT !.open_prs = prioritized_push(@, ticket)]
          ELSE [a1 EXCEPT !.open_tickets = prioritized_push(@, ticket)]

\* A faulty variant: a ticket below InScope is counted as in scope too.
ClassifyOneCountsBelowScope(acc, ticket) ==
  IF ticket.state = Done
    THEN [acc EXCEPT !.sprint_ticket_count = @ + 1,
                     !.completed_tickets = prioritized_push(@, ticket)]
  ELSE IF ticket.state <= InScope \/ ticket.moved_out_of_sprint
    THEN LET a1 == IF ticket.state <= InScope
                     THEN [acc EXCEPT !.project_ticket_count_in_scope = @ + 1]
                     ELSE acc
         IN IF ticket.moved_out_of_sprint
              THEN [a1 EXCEPT !.sprint_ticket_count = @ + 1,
                              !.deferred_tickets = prioritized_push(@, ticket)]
              ELSE a1
  ELSE IF ticket.state = DemoFinalApproval
    THEN [acc EXCEPT !.sprint_ticket_count = @ + 1,
                     !.demoes = prioritized_push(@, ticket)]
  ELSE LET a1 == [acc EXCEPT !.sprint_ticket_count = @ + 1]
       IN IF ticket.pr # None /\ ~ticket.pr[1].is_draft /\ is_blocked(ticket.pr[1])
            THEN [a1 EXCEPT !.blocked_prs = prioritized_push(@, ticket)]
          ELSE IF ticket.pr # None /\ ~ticket.pr[1].is_draft
            THEN [a1 EXCEPT !.open_prs = prioritized_push(@, ticket)]
          ELSE [a1 EXCEPT !.open_tickets = prioritized_push(@, ticket)]

\* A faulty variant: a deferred ticket is not counted as in scope.
ClassifyOneInScopeUnlessDeferred(acc, ticket) ==
  IF ticket.state = Done
    THEN [acc EXCEPT !.sprint_ticket_count = @ + 1,
                     !.completed_tickets = prioritized_push(@, ticket)]
  ELSE IF ticket.state <= InScope \/ ticket.moved_out_of_sprint
    THEN LET a1 == IF ticket.state = InScope /\ ~ticket.moved_out_of_sprint
                     THEN [acc EXCEPT !.project_ticket_count_in_scope = @ + 1]
                     ELSE acc
         IN IF ticket.moved_out_of_sprint
              THEN [a1 EXCEPT !.sprint_ticket_count = @ + 1,
                              !.deferred_tickets = prioritized_push(@, ticket)]
              ELSE a1
  ELSE IF ticket.state = DemoFinalApproval
    THEN [acc EXCEPT !.sprint_ticket_count = @ + 1,
                     !.demoes = prioritized_push(@, ticket)]
  ELSE LET a1 == [acc EXCEPT !.sprint_ticket_count = @ + 1]
       IN IF ticket.pr # None /\ ~ticket.pr[1].is_draft /\ is_blocked(ticket.pr[1])
            THEN [a1 EXCEPT !.blocked_prs = prioritized_push(@, ticket)]
          ELSE IF ticket.pr # None /\ ~ticket.pr[1].is_draft
            THEN [a1 EXCEPT !.open_prs = prioritized_push(@, ticket)]
          ELSE [a1 EXCEPT !.open_tickets = prioritized_push(@, ticket)]

\* ticket_summary.rs 58-88: the body of the loop, for one ticket.
ClassifyOne(acc, ticket) ==
  IF ticket.state = Done
    THEN [acc EXCEPT !.sprint_ticket_count = @ + 1,
                     !.completed_tickets = prioritized_push(@, ticket)]
  ELSE IF ticket.state <= InScope \/ ticket.moved_out_of_sprint
    THEN LET a1 == IF ticket.state = InScope
                     THEN [acc EXCEPT !.project_ticket_count_in_scope = @ + 1]
                     ELSE acc
         IN IF ticket.moved_out_of_sprint
              THEN [a1 EXCEPT !.sprint_ticket_count = @ + 1,
                              !.deferred_tickets = prioritized_push(@, ticket)]
              ELSE a1
  ELSE IF ticket.state = DemoFinalApproval
    THEN [acc EXCEPT !.sprint_ticket_count = @ + 1,
                     !.demoes = prioritized_push(@, ticket)]
  ELSE LET a1 == [acc EXCEPT !.sprint_ticket_count = @ + 1]
       IN IF ticket.pr # None /\ ~ticket.pr[1].is_draft /\ is_blocked(ticket.pr[1])
            THEN [a1 EXCEPT !.blocked_prs = prioritized_push(@, ticket)]
          ELSE IF ticket.pr # None /\ ~ticket.pr[1].is_draft
            THEN [a1 EXCEPT !.open_prs = prioritized_push(@, ticket)]
          ELSE [a1 EXCEPT !.open_tickets = prioritized_push(@, ticket)]

\* ticket_summary.rs From<Vec<Ticket>> for TicketSummary
TicketSummaryFrom(tickets) ==
  LET F[i \in 0..Len(tickets)] ==
        IF i = 0 THEN EmptySummary ELSE ClassifyOne(F[i - 1], tickets[i])
      acc == F[Len(tickets)]
  IN [acc EXCEPT
        !.completed_percentage =
            Percentage(Len(acc.completed_tickets), acc.sprint_ticket_count),
        !.project_ticket_count = Len(tickets),
        !.open_ticket_count =
            acc.sprint_ticket_count - Len(acc.completed_tickets)
              - Len(acc.deferred_tickets)]

\* A faulty variant: both buckets are kept.
clear_completed_and_deferred_kept(summary) == summary

\* TicketSummary::clear_completed_and_deferred
clear_completed_and_deferred(summary) ==
  [summary EXCEPT !.completed_tickets = << >>, !.deferred_tickets = << >>]

\* ticket_summary.rs From<&TicketSummary> for DailyTicketContexts
DailyTicketContextsFrom(summary) ==
  SeqMap(RecordFromTicket,
         summary.blocked_prs \o summary.open_prs \o summary.open_tickets
           \o summary.completed_tickets \o summary.deferred_tickets)

\* ticket_sources/mod.rs fetch_ticket_summary, given what the tracker and
\* the code-review system answered.
fetch_ticket_summary(current_ticket_details, current_sprint_name, history, previous_ticket_data, now) ==
  TicketSummaryFrom(ResultTickets(current_ticket_details, previous_ticket_data,
                                  current_sprint_name, history, now))

\* ------------------------------------------------------------- collaborators
\* The persisted documents (sprint_data.json, ticket_data.json,
\* historical_data.json), the scheduler's rules, the log of collaborator
\* calls of the running invocation, and whether all of them succeeded.
World(sd, td, hd, rl) ==
  [sprint_data |-> sd, ticket_data |-> td, historical_data |-> hd, rules |-> rl,
   calls |-> << >>, ok |-> TRUE, failed |-> ""]

NoRule == ""

\* One awaited collaborator call followed by `?`: skipped once an earlier
\* call failed; fails when it is the failAt-th call of the invocation or
\* when the collaborator refuses it; else takes its effect.
Step(w, name, failAt, refused, effect) ==
  IF ~w.ok THEN w
  ELSE IF Len(w.calls) + 1 = failAt \/ refused
    THEN [w EXCEPT !.ok = FALSE, !.calls = Append(@, name), !.failed = name]
  ELSE [effect EXCEPT !.calls = Append(w.calls, name)]

\* ActiveSprintContextClient::put_sprint_data
put_sprint_data(w, sprint_record) == [w EXCEPT !.sprint_data = Some(sprint_record)]

\* A faulty variant: the active context is never deleted.
clear_sprint_data_kept(w) == w

\* ActiveSprintContextClient::clear_sprint_data
clear_sprint_data(w) == [w EXCEPT !.sprint_data = None]

\* DailyTicketContextClient::put_ticket_data
put_ticket_data(w, tickets) == [w EXCEPT !.ticket_data = Some(tickets)]

\* A faulty variant: only the newest record is stored.
put_historical_data_latest(w, history) ==
  [w EXCEPT !.historical_data = Some(<< history[Len(history)] >>)]

\* CumulativeSprintContextClient::put_historical_data
put_historical_data(w, history) == [w EXCEPT !.historical_data = Some(history)]

\* A faulty variant: creating a rule removes every other rule.
create_daily_trigger_rule_alone(w, rule_name, cron) ==
  [w EXCEPT !.rules = [n \in DOMAIN w.rules |-> IF n = rule_name THEN cron ELSE NoRule]]

\* NotificationClient::create_daily_trigger_rule (put_rule is an upsert)
create_daily_trigger_rule(w, rule_name, cron) == [w EXCEPT !.rules[rule_name] = cron]

\* A faulty variant: the schedule of the rule is never replaced.
change_daily_trigger_rule_kept(w, rule_name, cron) == w

\* NotificationClient::change_daily_trigger_rule (describe_rule, then put_rule)
change_daily_trigger_rule(w, rule_name, cron) == [w EXCEPT !.rules[rule_name] = cron]

\* A faulty variant: the rule is left in place.
delete_daily_trigger_rule_kept(w, rule_name) == w

\* NotificationClient::delete_daily_trigger_rule (describe_rule, remove_targets, delete_rule)
delete_daily_trigger_rule(w, rule_name) == [w EXCEPT !.rules[rule_name] = NoRule]

\* describe_rule fails for a rule that does not exist.
RuleMissing(w, rule_name) == w.rules[rule_name] = NoRule

\* ------------------------------------------------------- save_sprint_state
\* A faulty variant: the scope count is taken from the project-scope counter.
NewSprintContextProjectScope(cmd, ticket_summary, now) ==
  [name |-> cmd.sprint_name,
   start_date |-> print_current_date(now),
   end_date |-> cmd.end_date,
   channel_id |-> cmd.channel_id,
   trello_board |-> TRELLO_BOARD_ID,
   open_tickets_count_beginning |-> ticket_summary.open_ticket_count,
   in_scope_tickets_count_beginning |-> ticket_summary.project_ticket_count_in_scope]

\* sprint_summary/mod.rs 97-105
NewSprintContext(cmd, ticket_summary, now) ==
  [name |-> cmd.sprint_name,
   start_date |-> print_current_date(now),
   end_date |-> cmd.end_date,
   channel_id |-> cmd.channel_id,
   trello_board |-> TRELLO_BOARD_ID,
   open_tickets_count_beginning |-> ticket_summary.open_ticket_count,
   in_scope_tickets_count_beginning |-> ticket_summary.sprint_ticket_count]

\* A faulty variant: the two differences are taken unsigned, never below zero.
NewCumulativeSprintContextUnsigned(sprint_data, ticket_summary) ==
  LET Monus(a, b) == IF a >= b THEN a - b ELSE 0
  IN [name |-> sprint_data.name,
      start_date |-> sprint_data.start_date,
      end_date |-> sprint_data.end_date,
      percent_complete |-> ticket_summary.completed_percentage,
      completed_tickets_count |-> Len(ticket_summary.completed_tickets),
      open_tickets_added_count |->
        Monus(ticket_summary.open_ticket_count, sprint_data.open_tickets_count_beginning),
      tickets_added_to_scope_count |->
        Monus(ticket_summary.sprint_ticket_count,
              sprint_data.in_scope_tickets_count_beginning)]

\* sprint_summary/mod.rs 122-133
NewCumulativeSprintContext(sprint_data, ticket_summary) ==
  [name |-> sprint_data.name,
   start_date |-> sprint_data.start_date,
   end_date |-> sprint_data.end_date,
   percent_complete |-> ticket_summary.completed_percentage,
   completed_tickets_count |-> Len(ticket_summary.completed_tickets),
   open_tickets_added_count |->
     ticket_summary.open_ticket_count - sprint_data.open_tickets_count_beginning,
   tickets_added_to_scope_count |->
     ticket_summary.sprint_ticket_count - sprint_data.in_scope_tickets_count_beginning]

SaveResult(w, status, summary, history) ==
  [w |-> w, status |-> status, ticket_summary |-> summary, history |-> history]

\* A faulty variant: the snapshot is stored before and after the rule is made.
SaveKickoffTwice(cmd, summary, history, w, failAt, now) ==
  LET new_sprint_context == NewSprintContext(cmd, summary, now)
      w1 == Step(w, "put_sprint_data", failAt, FALSE,
                 put_sprint_data(w, new_sprint_context))
      w2 == Step(w1, "put_ticket_data", failAt, FALSE,
                 put_ticket_data(w1, DailyTicketContextsFrom(summary)))
      w3 == Step(w2, "create_daily_trigger_rule", failAt, FALSE,
                 create_daily_trigger_rule(w2, cmd.sprint_name, DAILY_SUMMARY_TIME))
      w4 == Step(w3, "put_ticket_data", failAt, FALSE,
                 put_ticket_data(w3, DailyTicketContextsFrom(summary)))
  IN SaveResult(w4, IF w4.ok THEN "Ok" ELSE "Err", summary, history)

\* sprint_summary/mod.rs 96-109
SaveKickoff(cmd, summary, history, w, failAt, now) ==
  LET new_sprint_context == NewSprintContext(cmd, summary, now)
      w1 == Step(w, "put_sprint_data", failAt, FALSE,
                 put_sprint_data(w, new_sprint_context))
      w2 == Step(w1, "create_daily_trigger_rule", failAt, FALSE,
                 create_daily_trigger_rule(w1, cmd.sprint_name, DAILY_SUMMARY_TIME))
      w3 == Step(w2, "put_ticket_data", failAt, FALSE,
                 put_ticket_data(w2, DailyTicketContextsFrom(summary)))
  IN SaveResult(w3, IF w3.ok THEN "Ok" ELSE "Err", summary, history)

\* sprint_summary/mod.rs 110-116
SaveDailySummary(summary, active_ctx, history, w, failAt, now) ==
  LET w1 == Step(w, "put_ticket_data", failAt, FALSE,
                 put_ticket_data(w, DailyTicketContextsFrom(summary)))
  IN IF ~w1.ok THEN SaveResult(w1, "Err", summary, history)
     ELSE IF active_ctx = None THEN SaveResult(w1, "Panic", summary, history)
     ELSE LET context == active_ctx[1]
              d == days_between(Some(print_current_date(now)), context.end_date, now)
          IN IF ~d.ok THEN SaveResult(w1, "Panic", summary, history)
             ELSE IF d.val = 1
               THEN LET w2 == Step(w1, "change_daily_trigger_rule", failAt,
                                   RuleMissing(w1, context.name),
                                   change_daily_trigger_rule(w1, context.name,
                                                             SPRINT_REVIEW_TIME))
                    IN SaveResult(w2, IF w2.ok THEN "Ok" ELSE "Err", summary, history)
             ELSE SaveResult(w1, "Ok", summary, history)

\* sprint_summary/mod.rs 117-144
SaveClose(cmd, summary, active_ctx, history, w, failAt) ==
  IF active_ctx = None THEN SaveResult(w, "Err", summary, history)
  ELSE
    LET sprint_data == active_ctx[1]
        w1 == Step(w, "delete_daily_trigger_rule", failAt,
                   RuleMissing(w, sprint_data.name),
                   delete_daily_trigger_rule(w, sprint_data.name))
    IN IF ~w1.ok THEN SaveResult(w1, "Err", summary, history)
       ELSE IF cmd.type \in {"SprintEnd", "SprintReview"}
         THEN LET pushed == Append(history,
                                   NewCumulativeSprintContext(sprint_data, summary))
                  w2 == Step(w1, "put_historical_data", failAt, FALSE,
                             put_historical_data(w1, pushed))
                  cleared == IF w2.ok THEN clear_completed_and_deferred(summary)
                             ELSE summary
                  w3 == Step(w2, "put_ticket_data", failAt, FALSE,
                             put_ticket_data(w2, DailyTicketContextsFrom(cleared)))
                  w4 == Step(w3, "clear_sprint_data", failAt, FALSE,
                             clear_sprint_data(w3))
              IN SaveResult(w4, IF w4.ok THEN "Ok" ELSE "Err", cleared, pushed)
       ELSE LET w4 == Step(w1, "clear_sprint_data", failAt, FALSE,
                           clear_sprint_data(w1))
            IN SaveResult(w4, IF w4.ok THEN "Ok" ELSE "Err", summary, history)

\* A faulty variant: a closing command without an active context clears the
\* (absent) context and reports success.
save_sprint_state_close_lenient(cmd, summary, active_ctx, history, w, failAt, now) ==
  CASE cmd.type = "SprintKickoff" -> SaveKickoff(cmd, summary, history, w, failAt, now)
    [] cmd.type = "DailySummary" ->
         SaveDailySummary(summary, active_ctx, history, w, failAt, now)
    [] cmd.type \in {"SprintCancel", "SprintEnd", "SprintReview"} ->
         IF active_ctx = None
           THEN SaveResult(Step(w, "clear_sprint_data", failAt, FALSE, clear_sprint_data(w)),
                           "Ok", summary, history)
           ELSE SaveClose(cmd, summary, active_ctx, history, w, failAt)
    [] OTHER -> SaveResult(w, "Ok", summary, history)

\* A faulty variant: CheckIn stores the snapshot as DailySummary does.
save_sprint_state_checkin_saves(cmd, summary, active_ctx, history, w, failAt, now) ==
  CASE cmd.type = "SprintKickoff" -> SaveKickoff(cmd, summary, history, w, failAt, now)
    [] cmd.type \in {"DailySummary", "SprintCheckIn"} ->
         SaveDailySummary(summary, active_ctx, history, w, failAt, now)
    [] cmd.type \in {"SprintCancel", "SprintEnd", "SprintReview"} ->
         SaveClose(cmd, summary, active_ctx, history, w, failAt)
    [] OTHER -> SaveResult(w, "Ok", summary, history)

\* SprintCommand::save_sprint_state
save_sprint_state(cmd, summary, active_ctx, history, w, failAt, now) ==
  CASE cmd.type = "SprintKickoff" -> SaveKickoff(cmd, summary, history, w, failAt, now)
    [] cmd.type = "DailySummary" ->
         SaveDailySummary(summary, active_ctx, history, w, failAt, now)
    [] cmd.type \in {"SprintCancel", "SprintEnd", "SprintReview"} ->
         SaveClose(cmd, summary, active_ctx, history, w, failAt)
    [] OTHER -> SaveResult(w, "Ok", summary, history)

\* ------------------------------------------------------ create_sprint_message
\* SprintCommand::create_sprint_message succeeds (it returns Err or panics
\* exactly when a date it formats does not parse).
MessageComposes(cmd, active_ctx, now) ==
  CASE cmd.type \in {"SprintPreview", "SprintKickoff"} ->
         days_between(None, cmd.end_date, now).ok
    [] cmd.type \in {"SprintCheckIn", "DailySummary"} ->
         active_ctx # None /\ ~days_until_end(active_ctx[1], now).panic
    [] OTHER ->
         active_ctx # None
           /\ days_between(Some(active_ctx[1].start_date), print_current_date(now), now).ok

\* ------------------------------------------------------------------ handler
Response(kind, body) == [kind |-> kind, body |-> body]

NoResponse == Response("none", "")

HandlerResult(w, parsed, summary, outcome, response, applied, save_status) ==
  [w |-> w, parsed |-> parsed, ticket_summary |-> summary, outcome |-> outcome,
   response |-> response, applied |-> applied, save_status |-> save_status,
   current_ticket_details |-> << >>, result_tickets |-> << >>]

\* What fetch_ticket_summary worked with, kept beside the handler's result.
Fetched(r, current_ticket_details, result_tickets) ==
  [r EXCEPT !.current_ticket_details = current_ticket_details,
            !.result_tickets = result_tickets]

\* A faulty variant: a failed PR lookup is swallowed and the run goes on.
FetchPullRequestsLenient(w, current_ticket_details, failAt) ==
  LET F[i \in 0..Len(current_ticket_details)] ==
        IF i = 0 THEN w
        ELSE IF current_ticket_details[i].pr # None
          THEN [Step(F[i - 1], "fetch_pr_details", failAt, FALSE, F[i - 1]) EXCEPT !.ok = TRUE]
        ELSE F[i - 1]
  IN F[Len(current_ticket_details)]

\* ticket_sources/mod.rs 73-77: one fetch_pr_details per live ticket with a pr_url.
FetchPullRequests(w, current_ticket_details, failAt) ==
  LET F[i \in 0..Len(current_ticket_details)] ==
        IF i = 0 THEN w
        ELSE IF current_ticket_details[i].pr # None
          THEN Step(F[i - 1], "fetch_pr_details", failAt, FALSE, F[i - 1])
        ELSE F[i - 1]
  IN F[Len(current_ticket_details)]

\* A faulty variant: the report is delivered before the state is saved.
HandleCommandSendsFirst(w, parsed, active_ctx, previous_ticket_data, history, feed, failAt, now) ==
  LET sprint_command == parsed.cmd
      name == IF sprint_command.type \in {"SprintPreview", "SprintKickoff"}
                THEN sprint_command.sprint_name
                ELSE active_ctx[1].name
      f1 == Step(w, "fetch_ticket_details", failAt, FALSE, w)
      f2 == FetchPullRequests(f1, feed, failAt)
      summary == fetch_ticket_summary(feed, name, history, previous_ticket_data, now)
      tickets == ResultTickets(feed, previous_ticket_data, name, history, now)
  IN IF ~f1.ok
       THEN HandlerResult(f1, parsed, EmptySummary, "Failed", NoResponse, "None", "NotRun")
     ELSE IF ~f2.ok
       THEN HandlerResult(f2, parsed, EmptySummary, "Panicked", NoResponse, "None", "NotRun")
     ELSE IF ~MessageComposes(sprint_command, active_ctx, now)
       THEN Fetched(HandlerResult(f2, parsed, summary, "Panicked", NoResponse, "None",
                                  "NotRun"),
                    feed, tickets)
     ELSE
       LET sent == Step(f2, "send_teams_message", failAt, FALSE, f2)
           saved == save_sprint_state(sprint_command, summary, active_ctx, history,
                                      sent, failAt, now)
       IN IF ~sent.ok
            THEN Fetched(HandlerResult(sent, parsed, summary, "Returned",
                                       Response("json", "Error processing command"),
                                       "None", "Ok"),
                         feed, tickets)
          ELSE IF saved.status # "Ok"
            THEN Fetched(HandlerResult(saved.w, parsed, saved.ticket_summary, "Panicked",
                                       NoResponse, "None", saved.status),
                         feed, tickets)
          ELSE Fetched(HandlerResult(saved.w, parsed, saved.ticket_summary, "Returned",
                                     Response("json", "Processed command successfully"),
                                     sprint_command.type, "Ok"),
                       feed, tickets)

\* main.rs 46-66: a command was parsed.
HandleCommand(w, parsed, active_ctx, previous_ticket_data, history, feed, failAt, now) ==
  LET sprint_command == parsed.cmd
      name == IF sprint_command.type \in {"SprintPreview", "SprintKickoff"}
                THEN sprint_command.sprint_name
                ELSE active_ctx[1].name
      f1 == Step(w, "fetch_ticket_details", failAt, FALSE, w)
      f2 == FetchPullRequests(f1, feed, failAt)
      summary == fetch_ticket_summary(feed, name, history, previous_ticket_data, now)
      tickets == ResultTickets(feed, previous_ticket_data, name, history, now)
  IN IF ~f1.ok
       THEN HandlerResult(f1, parsed, EmptySummary, "Failed", NoResponse, "None", "NotRun")
     ELSE IF ~f2.ok
       THEN HandlerResult(f2, parsed, EmptySummary, "Panicked", NoResponse, "None", "NotRun")
     ELSE IF ~MessageComposes(sprint_command, active_ctx, now)
       THEN Fetched(HandlerResult(f2, parsed, summary, "Panicked", NoResponse, "None",
                                  "NotRun"),
                    feed, tickets)
     ELSE
       LET saved == save_sprint_state(sprint_command, summary, active_ctx, history,
                                      f2, failAt, now)
       IN IF saved.status # "Ok"
            THEN Fetched(HandlerResult(saved.w, parsed, saved.ticket_summary, "Panicked",
                                       NoResponse, "None", saved.status),
                         feed, tickets)
          ELSE
            LET w1 == [saved.w EXCEPT !.ok = TRUE]
                sent == Step(w1, "send_teams_message", failAt, FALSE, w1)
            IN Fetched(HandlerResult(sent, parsed, saved.ticket_summary, "Returned",
                                     IF sent.ok
                                       THEN Response("json", "Processed command successfully")
                                       ELSE Response("json", "Error processing command"),
                                     sprint_command.type, "Ok"),
                       feed, tickets)

\* main.rs function_handler
function_handler(w0, sprint_events, feed, failAt, now) ==
  LET r1 == Step(w0, "get_sprint_data", failAt, FALSE, w0)
      r2 == Step(r1, "get_ticket_data", failAt, FALSE, r1)
      r3 == Step(r2, "get_sprint_members", failAt, FALSE, r2)
      r4 == Step(r3, "get_historical_data", failAt, FALSE, r3)
      active_ctx == w0.sprint_data
      previous_ticket_data == IF w0.ticket_data = None THEN << >> ELSE w0.ticket_data[1]
      history == IF w0.historical_data = None THEN << >> ELSE w0.historical_data[1]
  IN IF ~r4.ok
       THEN HandlerResult(r4, NotParsed, EmptySummary, "Failed", NoResponse, "None", "NotRun")
     ELSE IF sprint_events.kind = "ScheduledTrigger" /\ active_ctx = None
       THEN HandlerResult(r4, NotParsed, EmptySummary, "Panicked", NoResponse,
                          "None", "NotRun")
     ELSE
       LET parsed == try_into_sprint_command(sprint_events, active_ctx, history, now)
       IN IF parsed.status = "Err"
            THEN HandlerResult(r4, parsed, EmptySummary, "Returned",
                               Response("http400", parsed.err), "None", "NotRun")
          ELSE IF parsed.status = "Panic"
            THEN HandlerResult(r4, parsed, EmptySummary, "Panicked", NoResponse,
                               "None", "NotRun")
          ELSE HandleCommand(r4, parsed, active_ctx, previous_ticket_data, history,
                             feed, failAt, now)

\* ------------------------------------------------------------------- state
\* No invocation runs beside another one.
NoInflight == [inv |-> << >>, written |-> FALSE, writers |-> << >>]

VARIABLES
  today,                  \* the current day
  sprint_data,            \* Option<ActiveSprintContext>, sprint_data.json
  ticket_data,            \* Option<DailyTicketContexts>, ticket_data.json
  historical_data,        \* Option<CumulativeSprintContexts>, historical_data.json
  rules,                  \* the scheduler's rules: rule name -> cron expression
  event,                  \* the trigger of the last invocation
  active_sprint_context,  \* the active context the last invocation worked with
  sprint_command_result,  \* what the parser answered in the last invocation
  current_ticket_details, \* what the tracker answered in the last invocation
  result_tickets,         \* the reconciled tickets of the last invocation
  ticket_summary,         \* the summary of the last invocation, as persisted from
  calls,                  \* the collaborator calls of the last invocation, in order
  outcome,                \* "Returned", "Failed" (Err returned) or "Panicked"
  response,               \* the value the last invocation returned
  save_status,            \* what save_sprint_state answered in the last invocation
  last_applied,           \* last applied command among Kickoff, Cancel, End, Review
  clean,                  \* no invocation has stopped part-way through its writes
  failed_call,            \* the collaborator call that failed in the last invocation, or ""
  inflight                \* the invocations that run side by side, each with its position

vars ==
  << today, sprint_data, ticket_data, historical_data, rules, event,
     active_sprint_context, sprint_command_result, current_ticket_details,
     result_tickets, ticket_summary, calls, outcome, response, save_status,
     last_applied, clean, failed_call, inflight >>

NoEvent == [kind |-> "None", command |-> "", args |-> << >>, channel_id |-> ""]

NoRules == [n \in Names |-> NoRule]

WriteCalls ==
  {"put_sprint_data", "put_ticket_data", "put_historical_data", "clear_sprint_data"}

SchedulerCalls ==
  {"create_daily_trigger_rule", "change_daily_trigger_rule", "delete_daily_trigger_rule"}

CallSet == {calls[i] : i \in 1..Len(calls)}

ReadCalls == {"get_sprint_data", "get_ticket_data", "get_historical_data"}

\* The calls that write or delete each persisted document.
DocumentWrites ==
  {{"put_sprint_data", "clear_sprint_data"}, {"put_ticket_data"}, {"put_historical_data"}}

History == IF historical_data = None THEN << >> ELSE historical_data[1]

\* --------------------------------------------------------------- inputs
EndDates == {BadDate} \cup (0..(MaxDay + 1))

KickoffArgs ==
  {<< 0 >>} \cup {<< d, n >> : d \in EndDates, n \in Names}

PreviewArgs == {<< >>, << BadDate, "S1" >>, << MaxDay + 1, "S2" >>}

\* The messages of the lifecycle runs; they all come from one channel.
MessageEvents ==
  {MessageTrigger("/sprint-kickoff-confirm", a, "C1") : a \in KickoffArgs}
  \cup {MessageTrigger("/sprint-kickoff", a, "C1") : a \in PreviewArgs}
  \cup {MessageTrigger(c, << >>, "C1") :
          c \in Commands \ {"/sprint-kickoff", "/sprint-kickoff-confirm"}}

PrOpen == Some(PullRequest(FALSE, FALSE, "true", 0))

PrBlocked == Some(PullRequest(FALSE, FALSE, "false", 0))

\* What the tracker may answer.
TicketFeeds ==
  { << >>,
    << TicketDetails("A", Done, FALSE, None), TicketDetails("B", InProgress, TRUE, PrOpen) >> }

\* ----------------------------------------------------------------- actions
Init ==
  /\ today = 0
  /\ sprint_data = None
  /\ ticket_data = None
  /\ historical_data = None
  /\ rules = NoRules
  /\ event = NoEvent
  /\ active_sprint_context = None
  /\ sprint_command_result = NotParsed
  /\ current_ticket_details = << >>
  /\ result_tickets = << >>
  /\ ticket_summary = EmptySummary
  /\ calls = << >>
  /\ outcome = "None"
  /\ response = NoResponse
  /\ save_status = "NotRun"
  /\ last_applied = "None"
  /\ clean = TRUE
  /\ failed_call = ""
  /\ inflight = NoInflight

\* One invocation of the lambda, start to end, on the given day.
InvocationOn(ev, feed, failAt, now) ==
  \E r \in {function_handler(World(sprint_data, ticket_data, historical_data, rules),
                              ev, feed, failAt, now)} :
     /\ sprint_data' = r.w.sprint_data
     /\ ticket_data' = r.w.ticket_data
     /\ historical_data' = r.w.historical_data
     /\ rules' = r.w.rules
     /\ event' = ev
     /\ active_sprint_context' = sprint_data
     /\ sprint_command_result' = r.parsed
     /\ current_ticket_details' = r.current_ticket_details
     /\ result_tickets' = r.result_tickets
     /\ ticket_summary' = r.ticket_summary
     /\ calls' = r.w.calls
     /\ outcome' = r.outcome
     /\ response' = r.response
     /\ save_status' = r.save_status
     /\ last_applied' =
          IF r.applied \in {"SprintKickoff", "SprintCancel", "SprintEnd", "SprintReview"}
            THEN r.applied ELSE last_applied
     /\ clean' = (clean /\ r.save_status \in {"Ok", "NotRun"})
     /\ failed_call' = r.w.failed
     /\ UNCHANGED inflight

\* One invocation of the lambda today.
Invocation(ev, feed, failAt) ==
  /\ InvocationOn(ev, feed, failAt, today)
  /\ UNCHANGED today

\* A slash command or button press arrives.
MessageInvocation ==
  \E ev \in MessageEvents, feed \in TicketFeeds :
    /\ ev.command = "/sprint-kickoff-confirm" => Len(History) < MaxHistory
    /\ Invocation(ev, feed, 0)

\* The scheduler's rule fires.
ScheduledInvocation ==
  \E feed \in TicketFeeds :
    Invocation(ScheduledTrigger, feed, 0)

\* Midnight passes.
NextDay ==
  /\ today < MaxDay
  /\ today' = today + 1
  /\ UNCHANGED << sprint_data, ticket_data, historical_data, rules, event,
                  active_sprint_context, sprint_command_result,
                  current_ticket_details, result_tickets, ticket_summary,
                  calls, outcome, response, save_status, last_applied, clean, failed_call, inflight >>

Next == MessageInvocation \/ ScheduledInvocation \/ NextDay

Spec == Init /\ [][Next]_vars

\* ------------------------------------------------- the parser on its own
\* A sprint may carry any name, also the text of a command.
ParserNames == Names \cup {"/sprint-kickoff-confirm"}

HistoryEntry(name) ==
  [name |-> name, start_date |-> 0, end_date |-> 0,
   percent_complete |-> Percentage(0, 0), completed_tickets_count |-> 0,
   open_tickets_added_count |-> 0, tickets_added_to_scope_count |-> 0]

ParserHistories ==
  UNION {[1..k -> {HistoryEntry(n) : n \in ParserNames}] : k \in 0..MaxHistory}

\* Active contexts as Kickoff leaves them: the end date is one that parses.
ParserContexts ==
  {None} \cup
  {Some([name |-> n, start_date |-> 0, end_date |-> d, channel_id |-> "C1",
         trello_board |-> TRELLO_BOARD_ID, open_tickets_count_beginning |-> 0,
         in_scope_tickets_count_beginning |-> 0]) :
     n \in Names, d \in 0..(MaxDay + 1)}

ParserArgs ==
  {<< >>} \cup {<< d >> : d \in EndDates} \cup {<< d, n >> : d \in EndDates, n \in Names}

ParserEvents ==
  {ScheduledTrigger} \cup
  {MessageTrigger(c, a, ch) : c \in Commands, a \in ParserArgs, ch \in Channels}

InitParser ==
  /\ today \in 0..MaxDay
  /\ sprint_data \in ParserContexts
  /\ historical_data \in {Some(h) : h \in ParserHistories}
  /\ ticket_data = None
  /\ rules = NoRules
  /\ event = NoEvent
  /\ active_sprint_context = None
  /\ sprint_command_result = NotParsed
  /\ current_ticket_details = << >>
  /\ result_tickets = << >>
  /\ ticket_summary = EmptySummary
  /\ calls = << >>
  /\ outcome = "None"
  /\ response = NoResponse
  /\ save_status = "NotRun"
  /\ last_applied = "None"
  /\ clean = TRUE
  /\ failed_call = ""
  /\ inflight = NoInflight

\* try_into_sprint_command applied to a trigger, the active context and the history.
ParseTrigger ==
  \E ev \in ParserEvents :
    /\ event = NoEvent
    /\ event' = ev
    /\ active_sprint_context' = sprint_data
    /\ sprint_command_result' = try_into_sprint_command(ev, sprint_data, History, today)
    /\ UNCHANGED << today, sprint_data, ticket_data, historical_data, rules,
                    current_ticket_details, result_tickets, ticket_summary, calls,
                    outcome, response, save_status, last_applied, clean, failed_call, inflight >>

NextParser == ParseTrigger

SpecParser == InitParser /\ [][NextParser]_vars

Parsed == event.kind # "None"

KickoffCommands == {"/sprint-kickoff", "/sprint-kickoff-confirm"}

\* ---------------------------------------- save_sprint_state on its own
\* The commands the unit tests apply, with or without an active context.
SaveCommands ==
  {SprintKickoff(n, d, ch) : n \in Names, d \in 0..(MaxDay + 1), ch \in Channels}
  \cup {SprintPreview("S1", MaxDay + 1, "C1"), SprintCheckIn, SprintEnd, SprintCancel,
        DailySummary, SprintReview}

SaveContexts ==
  {None} \cup
  {Some([name |-> n, start_date |-> 0, end_date |-> d, channel_id |-> "C1",
         trello_board |-> TRELLO_BOARD_ID, open_tickets_count_beginning |-> o,
         in_scope_tickets_count_beginning |-> 2]) :
     n \in Names, d \in 0..(MaxDay + 1), o \in {0, 2}}

SaveFeeds ==
  TicketFeeds \cup
  { << TicketDetails("B", InScope, FALSE, None),
       TicketDetails("A", InProgress, FALSE, PrBlocked) >> }

\* The snapshot set a previous invocation may have left.
SaveSnapshots ==
  {None,
   Some(<< DailyTicketContext("C", InProgress, FALSE, 0, "S1", 0),
           DailyTicketContext("B", InProgress, TRUE, 0, "S1", 0) >>)}

PreviousTicketData == IF ticket_data = None THEN << >> ELSE ticket_data[1]

InitSave ==
  /\ today \in 0..MaxDay
  /\ sprint_data \in SaveContexts
  /\ rules = [n \in Names |->
                IF sprint_data # None /\ sprint_data[1].name = n
                  THEN DAILY_SUMMARY_TIME ELSE NoRule]
  /\ historical_data \in {None, Some(<< HistoryEntry("S1") >>)}
  /\ ticket_data \in SaveSnapshots
  /\ event = NoEvent
  /\ active_sprint_context = None
  /\ sprint_command_result = NotParsed
  /\ current_ticket_details = << >>
  /\ result_tickets = << >>
  /\ ticket_summary = EmptySummary
  /\ calls = << >>
  /\ outcome = "None"
  /\ response = NoResponse
  /\ save_status = "NotRun"
  /\ last_applied = "None"
  /\ clean = TRUE
  /\ failed_call = ""
  /\ inflight = NoInflight

\* save_sprint_state applied once to a command, a summary and the context.
ApplyCommand ==
  \E cmd \in SaveCommands, feed \in SaveFeeds :
    \E r \in {save_sprint_state(
                cmd,
                fetch_ticket_summary(feed,
                                     IF cmd.type = "SprintKickoff" \/ sprint_data = None
                                       THEN cmd.sprint_name ELSE sprint_data[1].name,
                                     History, PreviousTicketData, today),
                sprint_data, History,
                World(sprint_data, ticket_data, historical_data, rules), 0, today)} :
      /\ sprint_command_result = NotParsed
      /\ current_ticket_details' = feed
      /\ result_tickets' =
           ResultTickets(feed, PreviousTicketData,
                         IF cmd.type = "SprintKickoff" \/ sprint_data = None
                           THEN cmd.sprint_name ELSE sprint_data[1].name,
                         History, today)
      /\ sprint_command_result' = Ok(cmd)
      /\ active_sprint_context' = sprint_data
      /\ sprint_data' = r.w.sprint_data
      /\ ticket_data' = r.w.ticket_data
      /\ historical_data' = r.w.historical_data
      /\ rules' = r.w.rules
      /\ calls' = r.w.calls
      /\ ticket_summary' = r.ticket_summary
      /\ save_status' = r.status
      /\ last_applied' =
           IF r.status = "Ok"
                /\ cmd.type \in {"SprintKickoff", "SprintCancel", "SprintEnd", "SprintReview"}
             THEN cmd.type ELSE last_applied
      /\ clean' = (r.status = "Ok")
      /\ failed_call' = r.w.failed
      /\ UNCHANGED inflight
      /\ UNCHANGED << today, event, outcome, response >>

NextSave == ApplyCommand

SpecSave == InitSave /\ [][NextSave]_vars

Applied(type) ==
  sprint_command_result.status = "Ok" /\ sprint_command_result.cmd.type = type
    /\ save_status # "NotRun"

\* ---------------------------------------- fetch_ticket_summary on its own
TicketStates ==
  {BacklogIdeas, InScope, InvestigationDiscussion, InProgress, PendingRelease,
   DemoFinalApproval, Done}

\* What the tracker may answer: one ticket in any state, or two tickets.
ReconcileFeeds ==
  {<< >>}
  \cup {<< TicketDetails("A", st, FALSE, None) >> : st \in TicketStates}
  \cup {<< TicketDetails("A", st, TRUE, PrOpen), TicketDetails("B", InProgress, FALSE, None) >> :
          st \in {InScope, Done}}
  \cup {<< TicketDetails("A", st, g, pr) >> :
          st \in {InProgress, DemoFinalApproval}, g \in BOOLEAN,
          pr \in {PrOpen, PrBlocked, Some(PullRequest(TRUE, FALSE, "true", 0))}}
  \cup {<< TicketDetails("A", Done, FALSE, None), TicketDetails("B", InProgress, FALSE, PrOpen) >>}

\* Snapshot sets as an earlier invocation stored them: one record per id.
ReconcileSnapshots ==
  {None}
  \cup {Some(<< DailyTicketContext("A", st, FALSE, 0, n, 0) >>) :
          st \in TicketStates, n \in Names}
  \cup {Some(<< DailyTicketContext("B", InProgress, FALSE, 0, n, 0),
                DailyTicketContext("C", Done, FALSE, 0, n, 0) >>) : n \in Names}

ReconcileHistories ==
  UNION {[1..k -> {HistoryEntry(n) : n \in Names}] : k \in 0..(MaxHistory + 1)}

InitReconcile ==
  /\ today \in 0..MaxDay
  /\ sprint_data \in {c \in ParserContexts : c # None /\ c[1].end_date = MaxDay + 1}
  /\ ticket_data \in ReconcileSnapshots
  /\ historical_data \in {Some(h) : h \in ReconcileHistories}
  /\ rules = NoRules
  /\ event = NoEvent
  /\ active_sprint_context = None
  /\ sprint_command_result = NotParsed
  /\ current_ticket_details = << >>
  /\ result_tickets = << >>
  /\ ticket_summary = EmptySummary
  /\ calls = << >>
  /\ outcome = "None"
  /\ response = NoResponse
  /\ save_status = "NotRun"
  /\ last_applied = "None"
  /\ clean = TRUE
  /\ failed_call = ""
  /\ inflight = NoInflight

\* fetch_ticket_summary applied once for the active sprint's name.
FetchTicketSummary ==
  \E feed \in ReconcileFeeds :
    /\ calls = << >>
    /\ calls' = FetchPullRequests(
                   Step(World(sprint_data, ticket_data, historical_data, rules),
                        "fetch_ticket_details", 0, FALSE,
                        World(sprint_data, ticket_data, historical_data, rules)),
                   feed, 0).calls
    /\ current_ticket_details' = feed
    /\ result_tickets' =
         ResultTickets(feed, PreviousTicketData, sprint_data[1].name, History, today)
    /\ ticket_summary' =
         fetch_ticket_summary(feed, sprint_data[1].name, History, PreviousTicketData, today)
    /\ active_sprint_context' = sprint_data
    /\ UNCHANGED << today, sprint_data, ticket_data, historical_data, rules, event,
                    sprint_command_result, outcome, response, save_status,
                    last_applied, clean, failed_call, inflight >>

NextReconcile == FetchTicketSummary

SpecReconcile == InitReconcile /\ [][NextReconcile]_vars

\* fetch_ticket_summary has run.
Reconciled == calls # << >>

\* ------------------------------------------------ the classifier on its own
\* ticket.rs Ticket, as the classifier reads it.
Ticket(id, state, is_goal, pr, moved_out_of_sprint) ==
  [id |-> id, name |-> NameOf(id), url |-> UrlOf(id), members |-> << >>,
   state |-> state, is_goal |-> is_goal, pr |-> pr,
   moved_out_of_sprint |-> moved_out_of_sprint, sprint_age |-> 0,
   added_on |-> 0, added_in_sprint |-> "S1", last_moved_on |-> 0]

\* The ids of the tickets of a list, by position.
TicketIds == << "T1", "T2", "T3", "T4", "T5" >>

\* Every pull request the code-review system can describe.
PullRequests ==
  {PullRequest(d, m, mg, f) :
     d \in BOOLEAN, m \in BOOLEAN, mg \in {"none", "true", "false"}, f \in 0..1}

\* Every kind of ticket: state, goal label, PR and moved-out mark.
TicketKinds ==
  [state : TicketStates, is_goal : BOOLEAN, moved_out_of_sprint : BOOLEAN,
   pr : {None} \cup {Some(q) : q \in PullRequests}]

\* The kinds the longer lists are made of.
ListKinds ==
  {k \in TicketKinds :
     \/ k.pr = None /\ ~k.moved_out_of_sprint /\ k.state \in {InProgress, Done}
     \/ k.pr = None /\ ~k.moved_out_of_sprint /\ ~k.is_goal
          /\ k.state \in {BacklogIdeas, InScope, DemoFinalApproval}
     \/ k.pr = None /\ k.moved_out_of_sprint /\ k.state = InScope
     \/ k.pr \in {PrOpen, PrBlocked} /\ ~k.moved_out_of_sprint /\ ~k.is_goal
          /\ k.state = InProgress}

ClassifyLists ==
  {<< k >> : k \in TicketKinds}
  \cup UNION {[1..n -> ListKinds] : n \in 2..MaxTickets}

\* The list of tickets of the given kinds, with ids by position.
TicketsOf(kinds) ==
  [i \in 1..Len(kinds) |->
     Ticket(TicketIds[i], kinds[i].state, kinds[i].is_goal, kinds[i].pr,
            kinds[i].moved_out_of_sprint)]

InitClassify ==
  /\ today = 0
  /\ sprint_data = None
  /\ ticket_data = None
  /\ historical_data = None
  /\ rules = NoRules
  /\ event = NoEvent
  /\ active_sprint_context = None
  /\ sprint_command_result = NotParsed
  /\ current_ticket_details = << >>
  /\ result_tickets = << >>
  /\ ticket_summary = EmptySummary
  /\ calls = << >>
  /\ outcome = "None"
  /\ response = NoResponse
  /\ save_status = "NotRun"
  /\ last_applied = "None"
  /\ clean = TRUE
  /\ failed_call = ""
  /\ inflight = NoInflight

\* TicketSummary::from applied once to a list of tickets.
Classify ==
  \E kinds \in ClassifyLists :
    /\ result_tickets = << >>
    /\ result_tickets' = TicketsOf(kinds)
    /\ ticket_summary' = TicketSummaryFrom(TicketsOf(kinds))
    /\ UNCHANGED << today, sprint_data, ticket_data, historical_data, rules, event,
                    active_sprint_context, sprint_command_result,
                    current_ticket_details, calls, outcome, response, save_status,
                    last_applied, clean, failed_call, inflight >>

NextClassify == Classify

SpecClassify == InitClassify /\ [][NextClassify]_vars

\* TicketSummary::from has run.
Classified == result_tickets # << >>

\* The list without its i-th ticket.
Without(tickets, i) ==
  [j \in 1..(Len(tickets) - 1) |-> IF j < i THEN tickets[j] ELSE tickets[j + 1]]

\* ------------------------------------------- a sprint run by the scheduler
\* The last day the scheduler is followed to: later than every end date a
\* kickoff can carry.
ScheduleHorizon == MaxDay + 3

\* Days pass before the sprint is kicked off.
WaitDay ==
  /\ last_applied = "None"
  /\ NextDay

\* The sprint is kicked off, with any end date.
ScheduleKickoff ==
  \E d \in EndDates, n \in Names, feed \in TicketFeeds :
    /\ last_applied = "None"
    /\ Invocation(MessageTrigger("/sprint-kickoff-confirm", << d, n >>, "C1"), feed, 0)

\* The next day comes and the sprint's rule fires the scheduled trigger, once.
ScheduledDay ==
  /\ sprint_data # None
  /\ rules[sprint_data[1].name] # NoRule
  /\ today < ScheduleHorizon
  /\ today' = today + 1
  /\ \E feed \in TicketFeeds : InvocationOn(ScheduledTrigger, feed, 0, today + 1)

NextSchedule == WaitDay \/ ScheduleKickoff \/ ScheduledDay

\* The scheduler fires the rule every day for as long as the rule exists.
SpecSchedule == Init /\ [][NextSchedule]_vars /\ WF_vars(ScheduledDay)

\* ------------------------------------------------ one sprint after another
\* Kickoffs with a good end date, and the commands that close a sprint.
SprintMessages ==
  {MessageTrigger("/sprint-kickoff-confirm", << MaxDay + 1, n >>, "C1") : n \in Names}
  \cup {MessageTrigger("/sprint-end", << >>, "C1"), MessageTrigger("/sprint-cancel", << >>, "C1")}

\* A kickoff or a closing command arrives; the history is followed up to
\* MaxHistory + 1 closed sprints.
SprintInvocation ==
  \E ev \in SprintMessages, feed \in TicketFeeds :
    /\ ev.command = "/sprint-kickoff-confirm" => Len(History) <= MaxHistory
    /\ Invocation(ev, feed, 0)

NextSprints == SprintInvocation \/ ScheduledInvocation \/ NextDay

SpecSprints == Init /\ [][NextSprints]_vars

\* ------------------------------------------- the runs of one sprint
\* What the tracker answers during the sprint: ticket A in a state above
\* InScope, nothing, or two goal tickets in progress.
RunFeeds ==
  {<< TicketDetails("A", st, g, None) >> :
     st \in {InProgress, DemoFinalApproval, Done}, g \in BOOLEAN}
  \cup {<< >>,
        << TicketDetails("A", InProgress, TRUE, None),
           TicketDetails("B", InProgress, TRUE, None) >>}

\* The sprint is kicked off with an end date after the last day followed.
RunKickoff ==
  \E n \in Names, feed \in RunFeeds :
    /\ last_applied = "None"
    /\ Invocation(MessageTrigger("/sprint-kickoff-confirm", << MaxDay + 2, n >>, "C1"),
                  feed, 0)

\* The next day comes and the scheduled trigger fires.
RunDaily ==
  /\ sprint_data # None
  /\ today <= MaxDay
  /\ today' = today + 1
  /\ \E feed \in RunFeeds : InvocationOn(ScheduledTrigger, feed, 0, today + 1)

\* The scheduled trigger is processed once more on the same day.
RunAgain ==
  /\ sprint_data # None
  /\ sprint_command_result.cmd.type = "DailySummary"
  /\ \E feed \in RunFeeds : Invocation(ScheduledTrigger, feed, 0)

NextRuns == RunKickoff \/ RunDaily \/ RunAgain

SpecRuns == Init /\ [][NextRuns]_vars

\* The last invocation applied a Kickoff or a DailySummary to the end.
RunOk ==
  /\ outcome = "Returned"
  /\ save_status = "Ok"
  /\ sprint_command_result.cmd.type \in {"SprintKickoff", "DailySummary"}

\* ------------------------------------------- invocations side by side
\* Nothing in main.rs takes a lock or makes a conditional write, so two
\* invocations of the lambda may run side by side; each awaited collaborator
\* call is one step.
Procs == {1, 2}

\* The kickoff each invocation is asked for.
KickoffOf(p) ==
  MessageTrigger("/sprint-kickoff-confirm",
                 << MaxDay + 1, IF p = 1 THEN "S1" ELSE "S2" >>, "C1")

\* main.rs function_handler: the reads of the store, in order.
StoreReads ==
  << "get_sprint_data", "get_ticket_data", "get_sprint_members", "get_historical_data" >>

\* save_sprint_state, SprintKickoff arm: the writes, in order.
KickoffWrites == << "put_sprint_data", "create_daily_trigger_rule", "put_ticket_data" >>

Started ==
  [pc |-> "get_sprint_data", active_sprint_context |-> None,
   previous_ticket_data |-> << >>, history |-> << >>,
   sprint_command_result |-> NotParsed, ticket_summary |-> EmptySummary,
   response |-> NoResponse, read_before_writes |-> TRUE]

\* The call that follows a call of the given sequence, or the given next stage.
After(sequence, name, stage) ==
  LET i == CHOOSE k \in 1..Len(sequence) : sequence[k] = name
  IN IF i < Len(sequence) THEN sequence[i + 1] ELSE stage

InitOverlap ==
  /\ today = 0
  /\ sprint_data = None
  /\ ticket_data = None
  /\ historical_data = None
  /\ rules = NoRules
  /\ event = NoEvent
  /\ active_sprint_context = None
  /\ sprint_command_result = NotParsed
  /\ current_ticket_details = << >>
  /\ result_tickets = << >>
  /\ ticket_summary = EmptySummary
  /\ calls = << >>
  /\ outcome = "None"
  /\ response = NoResponse
  /\ save_status = "NotRun"
  /\ last_applied = "None"
  /\ clean = TRUE
  /\ failed_call = ""
  /\ inflight = [inv |-> [p \in Procs |-> Started], written |-> FALSE, writers |-> << >>]

OverlapUnchanged ==
  UNCHANGED << today, event, active_sprint_context, sprint_command_result,
               current_ticket_details, result_tickets, ticket_summary, calls,
               outcome, response, save_status, last_applied, clean, failed_call >>

\* main.rs 26-35: invocation p reads one document of the store.
ReadStore(p) ==
  LET me == inflight.inv[p]
      got == CASE me.pc = "get_sprint_data" ->
                    [me EXCEPT !.active_sprint_context = sprint_data]
               [] me.pc = "get_ticket_data" ->
                    [me EXCEPT !.previous_ticket_data =
                                 IF ticket_data = None THEN << >> ELSE ticket_data[1]]
               [] me.pc = "get_historical_data" ->
                    [me EXCEPT !.history = History]
               [] OTHER -> me
  IN /\ \E i \in 1..Len(StoreReads) : StoreReads[i] = me.pc
     /\ inflight' =
          [inflight EXCEPT
             !.inv[p] = [got EXCEPT
                           !.pc = After(StoreReads, me.pc, "fetch_ticket_summary"),
                           !.read_before_writes = @ /\ ~inflight.written]]
     /\ UNCHANGED << sprint_data, ticket_data, historical_data, rules >>
     /\ OverlapUnchanged

\* main.rs 37-58: invocation p parses its event against what it read and, if
\* the command is accepted, fetches the ticket summary.
ParseAndFetch(p) ==
  LET me == inflight.inv[p]
  IN /\ me.pc = "fetch_ticket_summary"
     /\ \E feed \in TicketFeeds,
           parsed \in {try_into_sprint_command(KickoffOf(p), me.active_sprint_context,
                                               me.history, today)} :
          inflight' =
            [inflight EXCEPT
               !.inv[p] =
                 IF parsed.status = "Ok"
                   THEN [me EXCEPT
                           !.pc = "put_sprint_data",
                           !.sprint_command_result = parsed,
                           !.ticket_summary =
                             fetch_ticket_summary(feed, parsed.cmd.sprint_name, me.history,
                                                  me.previous_ticket_data, today)]
                   ELSE [me EXCEPT
                           !.pc = "done",
                           !.sprint_command_result = parsed,
                           !.response = Response("http400", parsed.err)]]
     /\ UNCHANGED << sprint_data, ticket_data, historical_data, rules >>
     /\ OverlapUnchanged

\* sprint_summary/mod.rs 96-109: invocation p makes one write of the kickoff.
WriteStore(p) ==
  LET me == inflight.inv[p]
      cmd == me.sprint_command_result.cmd
      w == World(sprint_data, ticket_data, historical_data, rules)
      w1 == CASE me.pc = "put_sprint_data" ->
                   put_sprint_data(w, NewSprintContext(cmd, me.ticket_summary, today))
              [] me.pc = "create_daily_trigger_rule" ->
                   create_daily_trigger_rule(w, cmd.sprint_name, DAILY_SUMMARY_TIME)
              [] OTHER ->
                   put_ticket_data(w, DailyTicketContextsFrom(me.ticket_summary))
  IN /\ \E i \in 1..Len(KickoffWrites) : KickoffWrites[i] = me.pc
     /\ sprint_data' = w1.sprint_data
     /\ ticket_data' = w1.ticket_data
     /\ historical_data' = w1.historical_data
     /\ rules' = w1.rules
     /\ inflight' =
          [inflight EXCEPT
             !.inv[p].pc = After(KickoffWrites, me.pc, "send_teams_message"),
             !.written = TRUE,
             !.writers = IF me.pc = "put_sprint_data" THEN Append(@, p) ELSE @]
     /\ OverlapUnchanged

\* main.rs 60-63: invocation p delivers its message and reports success.
Deliver(p) ==
  /\ inflight.inv[p].pc = "send_teams_message"
  /\ inflight' =
       [inflight EXCEPT
          !.inv[p].pc = "done",
          !.inv[p].response = Response("json", "Processed command successfully")]
  /\ UNCHANGED << sprint_data, ticket_data, historical_data, rules >>
  /\ OverlapUnchanged

NextOverlap ==
  \E p \in Procs : ReadStore(p) \/ ParseAndFetch(p) \/ WriteStore(p) \/ Deliver(p)

SpecOverlap == InitOverlap /\ [][NextOverlap]_vars

\* ------------------------------------------- invocations with a failing call
\* failAt = 0: every collaborator call succeeds; failAt = k: the k-th call of
\* the invocation fails.
FailPoints == 0..MaxFail

FaultEvents ==
  {MessageTrigger("/sprint-kickoff-confirm", << 1, "S1" >>, "C1"),
   MessageTrigger("/sprint-kickoff-confirm", << MaxDay + 1, "S2" >>, "C1"),
   MessageTrigger("/sprint-kickoff-confirm", << BadDate, "S1" >>, "C1"),
   MessageTrigger("/sprint-end", << >>, "C1"),
   MessageTrigger("/sprint-cancel", << >>, "C1"),
   ScheduledTrigger}

FaultFeed ==
  << TicketDetails("A", Done, FALSE, None), TicketDetails("B", InProgress, TRUE, PrOpen) >>

\* One invocation in which at most one collaborator call fails.
FaultyInvocation ==
  \E ev \in FaultEvents, failAt \in FailPoints :
    /\ ev.command = "/sprint-kickoff-confirm" => Len(History) < MaxHistory
    /\ Invocation(ev, FaultFeed, failAt)

NextFaults == FaultyInvocation \/ NextDay

SpecFaults == Init /\ [][NextFaults]_vars

\* The call that failed in the last invocation ("" when none did): a failed
\* call is the last one the invocation made.
FailedCall ==
  IF outcome = "Failed" \/ save_status = "Err" THEN calls[Len(calls)] ELSE ""

\* ================================================================== claims
ActiveExists == sprint_data # None

NoEffectCalls ==
  CallSet \cap (WriteCalls \cup SchedulerCalls \cup {"send_teams_message"}) = {}

\* C1: in runs whose commands were all applied successfully, an active
\* sprint context is persisted exactly when the last applied command among
\* Kickoff, Cancel, End and Review was Kickoff (none has been applied at the
\* start, and Preview, CheckIn and DailySummary do not change which was last).
C1_ActiveIffKickoffLast ==
  clean => (ActiveExists <=> last_applied = "SprintKickoff")

C1_Witness ==
  /\ clean
  /\ last_applied = "SprintCancel"
  /\ ~ActiveExists
  /\ "clear_sprint_data" \in CallSet

\* C2: with an active sprint, the scheduled trigger parses to Review when
\* the end date is today or earlier and to DailySummary when it is later.
C2_ScheduledReviewWhenDue ==
  (Parsed /\ event.kind = "ScheduledTrigger" /\ active_sprint_context # None) =>
    IF active_sprint_context[1].end_date <= today
      THEN sprint_command_result = Ok(SprintReview)
      ELSE sprint_command_result = Ok(DailySummary)

\* C3: with no active sprint, a Kickoff or Preview trigger whose sprint name
\* is the name of an entry of the history is rejected with an error.
C3_ReusedNameRejected ==
  (Parsed /\ active_sprint_context = None /\ event.command \in KickoffCommands
     /\ Len(event.args) >= 2
     /\ \E i \in 1..Len(History) : History[i].name = event.args[2]) =>
    (sprint_command_result.status = "Err" /\ sprint_command_result.cmd = NoCmd)

\* C4: with an active sprint, a manual Preview or Kickoff trigger is rejected
\* as "sprint already in progress" whatever its arguments and the history,
\* and a manual CheckIn, Cancel or End yields exactly that command.
C4_ActiveSprintMessages ==
  (Parsed /\ event.kind = "MessageTrigger" /\ active_sprint_context # None) =>
    /\ event.command \in KickoffCommands =>
         sprint_command_result = Err("Sprint already in progress")
    /\ event.command = "/sprint-check-in" => sprint_command_result = Ok(SprintCheckIn)
    /\ event.command = "/sprint-cancel" => sprint_command_result = Ok(SprintCancel)
    /\ event.command = "/sprint-end" => sprint_command_result = Ok(SprintEnd)

C4_Witness ==
  /\ active_sprint_context # None
  /\ event.command = "/sprint-end"
  /\ sprint_command_result = Ok(SprintEnd)
  /\ Len(History) > 0

\* C5: with no active sprint, every trigger other than a manual
\* Preview/Kickoff (CheckIn, Cancel, End, an unknown command, the scheduled
\* trigger) is rejected with an error and yields no command.
C5_NoSprintRejects ==
  (Parsed /\ active_sprint_context = None /\ event.command \notin KickoffCommands) =>
    (sprint_command_result.status = "Err" /\ sprint_command_result.cmd = NoCmd)

C5_Witness ==
  /\ active_sprint_context = None
  /\ event.kind = "ScheduledTrigger"
  /\ sprint_command_result = Err("No sprint in progress")

\* C6: with no active sprint, a Preview/Kickoff trigger is rejected with an
\* error when its payload has fewer than two parts or when its end-date part
\* does not parse as a date.
C6_MalformedKickoffRejected ==
  (Parsed /\ active_sprint_context = None /\ event.command \in KickoffCommands
     /\ (Len(event.args) < 2 \/ ~ParseDate(event.args[1]).ok)) =>
    (sprint_command_result.status = "Err" /\ sprint_command_result.cmd = NoCmd)

\* C7: for every trigger the parser rejects, and for a scheduled trigger
\* that arrives while no sprint is active, the invocation returns a response
\* that carries the rejection reason and makes no persistence write, no
\* scheduler call and sends no report.
C7_RejectedTriggerAnswered ==
  (sprint_command_result.status = "Err"
     \/ (event.kind = "ScheduledTrigger" /\ active_sprint_context = None)) =>
    /\ outcome = "Returned"
    /\ response.kind = "http400" /\ response.body # ""
    /\ NoEffectCalls

\* C8: as long as no invocation stopped at a failed collaborator call, a
\* scheduler rule named after a sprint exists exactly when that sprint is
\* the persisted active context.
C8_RuleIffActive ==
  clean =>
    \A n \in Names :
      (rules[n] # NoRule) <=> (ActiveExists /\ sprint_data[1].name = n)

C8_Witness ==
  /\ clean
  /\ last_applied = "SprintReview"
  /\ rules = NoRules
  /\ "delete_daily_trigger_rule" \in CallSet

\* C9: applying Kickoff{name, endDate, channelId} persists an active context
\* with that name, end date and channel, start date today,
\* openTicketCountAtStart the summary's open-ticket count and
\* inScopeCountAtStart the summary's sprint-ticket count.
C9_KickoffContext ==
  (Applied("SprintKickoff") /\ save_status = "Ok") =>
    /\ sprint_data # None
    /\ sprint_data[1].name = sprint_command_result.cmd.sprint_name
    /\ sprint_data[1].end_date = sprint_command_result.cmd.end_date
    /\ sprint_data[1].channel_id = sprint_command_result.cmd.channel_id
    /\ sprint_data[1].start_date = today
    /\ sprint_data[1].open_tickets_count_beginning = ticket_summary.open_ticket_count
    /\ sprint_data[1].in_scope_tickets_count_beginning = ticket_summary.sprint_ticket_count

C9_Witness ==
  /\ Applied("SprintKickoff") /\ save_status = "Ok"
  /\ sprint_command_result.cmd.channel_id = "C2"
  /\ ticket_summary.sprint_ticket_count = 2
  /\ ticket_summary.open_ticket_count = 1
  /\ today > 0

\* C10: applying DailySummary stores the snapshot set derived from the
\* summary and returns success, also when no active context is supplied.
C10_DailySummaryStoresAndSucceeds ==
  Applied("DailySummary") =>
    /\ save_status = "Ok"
    /\ ticket_data = Some(DailyTicketContextsFrom(ticket_summary))

\* save_sprint_state has just been applied to a command of this type.
Applying(type) ==
  /\ sprint_command_result = NotParsed
  /\ sprint_command_result'.status = "Ok"
  /\ sprint_command_result'.cmd.type = type

\* C11: applying DailySummary to an active sprint sets the sprint's scheduler
\* rule to the sprint-review schedule when exactly one day remains before the
\* end date, and leaves every rule's schedule as it was on any other day.
C11_DailySummarySwitchesRule ==
  [][(Applying("DailySummary") /\ sprint_data # None) =>
       rules' = IF sprint_data[1].end_date - today = 1
                  THEN [rules EXCEPT ![sprint_data[1].name] = SPRINT_REVIEW_TIME]
                  ELSE rules]_vars

C11_Witness ==
  /\ Applied("DailySummary") /\ save_status = "Ok"
  /\ active_sprint_context # None
  /\ active_sprint_context[1].end_date - today = 1
  /\ rules[active_sprint_context[1].name] = SPRINT_REVIEW_TIME
  /\ "change_daily_trigger_rule" \in CallSet

\* C12: the persisted history only grows by appending. A successful End or
\* Review appends exactly one record, carrying the closed sprint's name,
\* start date and end date, after the existing records, which keep their
\* values and order; every other command (Kickoff, DailySummary, Cancel,
\* Preview, CheckIn) and every failed application leaves the history as it was.
C12_HistoryAppendOnly ==
  [][(sprint_command_result = NotParsed /\ sprint_command_result'.status = "Ok") =>
       IF sprint_command_result'.cmd.type \in {"SprintEnd", "SprintReview"}
            /\ save_status' = "Ok"
         THEN /\ Len(History') = Len(History) + 1
              /\ SubSeq(History', 1, Len(History)) = History
              /\ History'[Len(History')].name = sprint_data[1].name
              /\ History'[Len(History')].start_date = sprint_data[1].start_date
              /\ History'[Len(History')].end_date = sprint_data[1].end_date
         ELSE History' = History]_vars

C12_Witness ==
  /\ Applied("SprintReview") /\ save_status = "Ok"
  /\ Len(History) = 2
  /\ History[1] = HistoryEntry("S1")
  /\ History[2].name = "S2"
  /\ History[2].end_date = active_sprint_context[1].end_date

\* The summary fetch_ticket_summary handed to save_sprint_state.
FetchedSummary == TicketSummaryFrom(result_tickets)

\* A closing command that writes history (End or Review) has been applied.
AppliedClose ==
  (Applied("SprintEnd") \/ Applied("SprintReview")) /\ save_status = "Ok"

\* C13: the record appended by End or Review has open_tickets_added_count =
\* summary.open_ticket_count - context.open_tickets_count_beginning and
\* tickets_added_to_scope_count = summary.sprint_ticket_count -
\* context.in_scope_tickets_count_beginning, as signed values (negative when
\* the count shrank during the sprint).
C13_SignedDeltas ==
  AppliedClose =>
    LET record == History[Len(History)]
        context == active_sprint_context[1]
    IN /\ record.open_tickets_added_count =
            FetchedSummary.open_ticket_count - context.open_tickets_count_beginning
       /\ record.tickets_added_to_scope_count =
            FetchedSummary.sprint_ticket_count
              - context.in_scope_tickets_count_beginning

C13_Witness ==
  /\ AppliedClose
  /\ History[Len(History)].open_tickets_added_count < 0
  /\ History[Len(History)].tickets_added_to_scope_count < 0
  /\ FetchedSummary.sprint_ticket_count > 0

\* C14: the snapshot set persisted by End or Review holds no ticket of the
\* summary's completed bucket and none of its deferred bucket, while the
\* history record appended by the same command reports the completed count
\* and the percentage of the summary as it was before the buckets were cleared.
C14_ClosedSnapshotDropsDoneAndDeferred ==
  AppliedClose =>
    LET dropped == FetchedSummary.completed_tickets \o FetchedSummary.deferred_tickets
        record == History[Len(History)]
    IN /\ ticket_data # None
       /\ \A i \in 1..Len(ticket_data[1]), j \in 1..Len(dropped) :
            ticket_data[1][i].id # dropped[j].id
       /\ record.completed_tickets_count = Len(FetchedSummary.completed_tickets)
       /\ record.percent_complete = FetchedSummary.completed_percentage

C14_Witness ==
  /\ AppliedClose
  /\ Len(FetchedSummary.completed_tickets) > 0
  /\ Len(FetchedSummary.deferred_tickets) > 0
  /\ Len(ticket_data[1]) > 0
  /\ History[Len(History)].completed_tickets_count > 0

\* C15: applying Preview or CheckIn changes nothing that is persisted: the
\* active context, the snapshot set, the history and the scheduler rules are
\* the same after the command as before it.
C15_PreviewCheckInPersistNothing ==
  [][(Applying("SprintPreview") \/ Applying("SprintCheckIn")) =>
       UNCHANGED << sprint_data, ticket_data, historical_data, rules >>]_vars

C15_Witness ==
  /\ Applied("SprintCheckIn") /\ save_status = "Ok"
  /\ sprint_data # None /\ ticket_data # None /\ historical_data # None
  /\ Len(result_tickets) > 0
  /\ calls = << >>

\* C16: applying Cancel, End or Review when no active context is present
\* fails with an error and makes no scheduler call and no persistence write:
\* history, snapshot set and scheduler rules stay as they were.
C16_CloseWithoutContextFails ==
  [][((Applying("SprintCancel") \/ Applying("SprintEnd") \/ Applying("SprintReview"))
        /\ sprint_data = None) =>
       /\ save_status' = "Err"
       /\ calls' = << >>
       /\ UNCHANGED << sprint_data, ticket_data, historical_data, rules >>]_vars

C16_Witness ==
  /\ Applied("SprintEnd") /\ save_status = "Err"
  /\ active_sprint_context = None
  /\ ticket_data # None /\ historical_data # None
  /\ Len(result_tickets) > 0

\* C17: in a single invocation, if a persistence or scheduler call fails, the
\* failure is propagated (the invocation does not return normally) and no
\* persistence write of that invocation has taken effect: the three persisted
\* documents are as they were before the invocation.
C17_FailureLeavesNoWrite ==
  [][(FailedCall' \in WriteCalls \cup SchedulerCalls) =>
       /\ outcome' # "Returned"
       /\ UNCHANGED << sprint_data, ticket_data, historical_data >>]_vars

\* C18: within one invocation every read of the three persisted documents
\* (active context, snapshot set, history) happens before any write, and each
\* document is written or deleted at most once.
C18_ReadsBeforeWritesOncePerDocument ==
  /\ \A i, j \in 1..Len(calls) :
       (i < j /\ calls[i] \in WriteCalls) => calls[j] \notin ReadCalls
  /\ \A doc \in DocumentWrites :
       Cardinality({i \in 1..Len(calls) : calls[i] \in doc}) <= 1

C18_Witness ==
  /\ outcome = "Returned"
  /\ ReadCalls \subseteq CallSet
  /\ {"put_historical_data", "put_ticket_data", "clear_sprint_data"} \subseteq CallSet
  /\ historical_data # None

\* C19: a live ticket that has no prior snapshot with the same id is
\* reconciled to sprint_age 0, added_on today, last_moved_on today,
\* added_in_sprint the current sprint's name and moved_out_of_sprint false,
\* whatever the ticket's state and whatever the history contains.
C19_NewTicketContext ==
  Reconciled =>
    \A i \in 1..Len(current_ticket_details) :
      (\A k \in 1..Len(PreviousTicketData) :
         PreviousTicketData[k].id # current_ticket_details[i].id) =>
        /\ result_tickets[i].id = current_ticket_details[i].id
        /\ result_tickets[i].sprint_age = 0
        /\ result_tickets[i].added_on = today
        /\ result_tickets[i].last_moved_on = today
        /\ result_tickets[i].added_in_sprint = sprint_data[1].name
        /\ result_tickets[i].moved_out_of_sprint = FALSE

C19_Witness ==
  /\ Reconciled
  /\ today > 0
  /\ Len(current_ticket_details) = 1
  /\ current_ticket_details[1].state = BacklogIdeas
  /\ PreviousTicketData # << >>
  /\ \A k \in 1..Len(PreviousTicketData) : PreviousTicketData[k].id # "A"
  /\ Len(History) > 0 /\ History[1].name = sprint_data[1].name
  /\ result_tickets[1].sprint_age = 0

\* C20: for a live ticket with a prior snapshot, the reconciled last_moved_on
\* is the snapshot's last_moved_on when the live state equals the snapshot's
\* state, and today when the two states differ.
C20_LastMovedCarriedOver ==
  Reconciled =>
    \A i \in 1..Len(current_ticket_details), k \in 1..Len(PreviousTicketData) :
      PreviousTicketData[k].id = current_ticket_details[i].id =>
        result_tickets[i].last_moved_on =
          IF PreviousTicketData[k].state = current_ticket_details[i].state
            THEN PreviousTicketData[k].last_moved_on
            ELSE today

C20_Witness ==
  /\ Reconciled
  /\ today > 0
  /\ Len(current_ticket_details) = 1 /\ Len(PreviousTicketData) = 1
  /\ PreviousTicketData[1].id = current_ticket_details[1].id
  /\ PreviousTicketData[1].state = current_ticket_details[1].state
  /\ result_tickets[1].last_moved_on = 0

\* C21: for a live ticket with a prior snapshot, sprint_age is the number of
\* history entries from the most recent one back to and including the most
\* recent entry named like the snapshot's added_in_sprint, and 0 when no
\* entry has that name; was_sprint_name_used holds exactly when some entry
\* has the name.
C21_SprintAgeCountsBack ==
  Reconciled =>
    \A i \in 1..Len(current_ticket_details), k \in 1..Len(PreviousTicketData) :
      PreviousTicketData[k].id = current_ticket_details[i].id =>
        LET name == PreviousTicketData[k].added_in_sprint
            hits == {j \in 1..Len(History) : History[j].name = name}
        IN /\ result_tickets[i].sprint_age =
                Cardinality({j \in 1..Len(History) : \E h \in hits :
                               (\A g \in hits : g <= h) /\ j >= h})
           /\ was_sprint_name_used(History, name) <=> hits # {}

C21_Witness ==
  /\ Reconciled
  /\ Len(History) = 2
  /\ History[1].name = "S1" /\ History[2].name = "S2"
  /\ Len(current_ticket_details) = 1 /\ Len(PreviousTicketData) = 1
  /\ PreviousTicketData[1].id = current_ticket_details[1].id
  /\ PreviousTicketData[1].added_in_sprint = "S1"
  /\ result_tickets[1].sprint_age = 2

\* The ids of the tickets of a bucket, in order.
BucketIds(bucket) == [i \in 1..Len(bucket) |-> bucket[i].id]

\* How many entries of a bucket carry the id.
CountIn(bucket, id) == Cardinality({i \in 1..Len(bucket) : bucket[i].id = id})

\* C22: every reconciled ticket (live or snapshot-only) whose state is above
\* InScope occurs exactly once across completed, demoes, blocked_prs, open_prs
\* and open_tickets, and does not occur in deferred.
C22_ActiveTicketInOneBucket ==
  Reconciled =>
    \A i \in 1..Len(result_tickets) :
      result_tickets[i].state > InScope =>
        LET id == result_tickets[i].id
        IN /\ CountIn(ticket_summary.completed_tickets, id)
                + CountIn(ticket_summary.demoes, id)
                + CountIn(ticket_summary.blocked_prs, id)
                + CountIn(ticket_summary.open_prs, id)
                + CountIn(ticket_summary.open_tickets, id) = 1
           /\ CountIn(ticket_summary.deferred_tickets, id) = 0

C22_Witness ==
  /\ Reconciled
  /\ Len(result_tickets) = 3
  /\ result_tickets[1].state = Done
  /\ result_tickets[2].state = InProgress
  /\ result_tickets[3].state = InScope
  /\ BucketIds(ticket_summary.completed_tickets) = << "A" >>
  /\ BucketIds(ticket_summary.open_tickets) = << "B" >>
  /\ BucketIds(ticket_summary.deferred_tickets) = << "C" >>

\* C24: a live ticket at or below InScope whose snapshot was above InScope
\* reconciles as moved out of the sprint, is in the deferred bucket once, and
\* is one of the tickets sprint_ticket_count counts (the count is the total
\* size of the buckets).
C24_RegressedTicketIsDeferred ==
  Reconciled =>
    \A i \in 1..Len(current_ticket_details), k \in 1..Len(PreviousTicketData) :
      /\ PreviousTicketData[k].id = current_ticket_details[i].id
      /\ PreviousTicketData[k].state > InScope
      /\ current_ticket_details[i].state <= InScope
      => /\ result_tickets[i].moved_out_of_sprint
         /\ CountIn(ticket_summary.deferred_tickets, current_ticket_details[i].id) = 1
         /\ ticket_summary.sprint_ticket_count =
              Len(ticket_summary.deferred_tickets) + Len(ticket_summary.completed_tickets)
                + Len(ticket_summary.demoes) + Len(ticket_summary.blocked_prs)
                + Len(ticket_summary.open_prs) + Len(ticket_summary.open_tickets)

C24_Witness ==
  /\ Reconciled
  /\ Len(current_ticket_details) = 1 /\ Len(PreviousTicketData) = 1
  /\ current_ticket_details[1].id = PreviousTicketData[1].id
  /\ current_ticket_details[1].state = InScope
  /\ PreviousTicketData[1].state = InProgress
  /\ BucketIds(ticket_summary.deferred_tickets) = << "A" >>

\* The tickets of result_tickets that come from snapshots without a live
\* ticket: the positions after the live ones.
OrphanPositions == (Len(current_ticket_details) + 1)..Len(result_tickets)

\* C25: every snapshot whose id matches no live ticket yields one ticket with
\* moved_out_of_sprint, no PR and no members, the snapshot's id, name, url,
\* added_on, added_in_sprint and last_moved_on, and that ticket is in the
\* deferred bucket.
C25_OrphanIsMaterializedAndDeferred ==
  Reconciled =>
    \A k \in 1..Len(PreviousTicketData) :
      (\A i \in 1..Len(current_ticket_details) :
          current_ticket_details[i].id # PreviousTicketData[k].id)
      => /\ Cardinality({j \in OrphanPositions :
                           result_tickets[j].id = PreviousTicketData[k].id}) = 1
         /\ \A j \in OrphanPositions :
              result_tickets[j].id = PreviousTicketData[k].id =>
                /\ result_tickets[j].moved_out_of_sprint
                /\ result_tickets[j].pr = None
                /\ result_tickets[j].members = << >>
                /\ result_tickets[j].name = PreviousTicketData[k].name
                /\ result_tickets[j].url = PreviousTicketData[k].url
                /\ result_tickets[j].added_on = PreviousTicketData[k].added_on
                /\ result_tickets[j].added_in_sprint = PreviousTicketData[k].added_in_sprint
                /\ result_tickets[j].last_moved_on = PreviousTicketData[k].last_moved_on
                /\ \E d \in 1..Len(ticket_summary.deferred_tickets) :
                     ticket_summary.deferred_tickets[d] = result_tickets[j]
         /\ CountIn(ticket_summary.deferred_tickets, PreviousTicketData[k].id) = 1

C25_Witness ==
  /\ Reconciled
  /\ Len(current_ticket_details) = 1 /\ current_ticket_details[1].id = "A"
  /\ result_tickets[1].members = << "U1" >>
  /\ BucketIds(PreviousTicketData) = << "B", "C" >>
  /\ PreviousTicketData[2].state = Done
  /\ BucketIds(ticket_summary.deferred_tickets) = << "B", "C" >>
  /\ ticket_summary.deferred_tickets[2].name = NameOf("C")

\* C29: live tickets A (Done) and B (InProgress with a non-draft, mergeable,
\* unmerged PR without failing checks) and no snapshot give
\* sprint_ticket_count 2, completed [A], open_prs [B], every other bucket
\* empty and a completed percentage of 50.
C29_EndToEndScenario ==
  /\ Reconciled
  /\ ticket_data = None
  /\ Len(current_ticket_details) = 2
  /\ current_ticket_details[1].id = "A" /\ current_ticket_details[1].state = Done
  /\ current_ticket_details[2].id = "B" /\ current_ticket_details[2].state = InProgress
  /\ current_ticket_details[2].pr = Some(PullRequest(FALSE, FALSE, "true", 0))
  => /\ ticket_summary.sprint_ticket_count = 2
     /\ BucketIds(ticket_summary.completed_tickets) = << "A" >>
     /\ BucketIds(ticket_summary.open_prs) = << "B" >>
     /\ ticket_summary.demoes = << >>
     /\ ticket_summary.blocked_prs = << >>
     /\ ticket_summary.open_tickets = << >>
     /\ ticket_summary.deferred_tickets = << >>
     /\ ticket_summary.completed_percentage.den # 0
     /\ ticket_summary.completed_percentage.num = 50 * ticket_summary.completed_percentage.den

C29_Witness ==
  /\ Reconciled
  /\ ticket_data = None
  /\ BucketIds(current_ticket_details) = << "A", "B" >>
  /\ current_ticket_details[1].state = Done
  /\ current_ticket_details[1].pr = None
  /\ current_ticket_details[2].pr = Some(PullRequest(FALSE, FALSE, "true", 0))
  /\ BucketIds(ticket_summary.open_prs) = << "B" >>

\* The six buckets of the summary.
Buckets ==
  << ticket_summary.completed_tickets, ticket_summary.demoes, ticket_summary.blocked_prs,
     ticket_summary.open_prs, ticket_summary.open_tickets, ticket_summary.deferred_tickets >>

\* C23: for every list of tickets, sprint_ticket_count is the total size of
\* the six buckets, and open_ticket_count is sprint_ticket_count minus the
\* completed and the deferred tickets, is not negative, and is the number of
\* tickets in demoes, blocked_prs, open_prs and open_tickets.
C23_CountsMatchBuckets ==
  /\ ticket_summary.sprint_ticket_count =
        Len(Buckets[1]) + Len(Buckets[2]) + Len(Buckets[3]) + Len(Buckets[4])
          + Len(Buckets[5]) + Len(Buckets[6])
  /\ ticket_summary.open_ticket_count =
        ticket_summary.sprint_ticket_count - Len(ticket_summary.completed_tickets)
          - Len(ticket_summary.deferred_tickets)
  /\ ticket_summary.open_ticket_count >= 0
  /\ ticket_summary.open_ticket_count =
        Len(ticket_summary.demoes) + Len(ticket_summary.blocked_prs)
          + Len(ticket_summary.open_prs) + Len(ticket_summary.open_tickets)

C23_Witness ==
  /\ Classified
  /\ Len(result_tickets) = 3
  /\ Len(ticket_summary.completed_tickets) = 1
  /\ Len(ticket_summary.deferred_tickets) = 1
  /\ Len(ticket_summary.demoes) = 1
  /\ ticket_summary.sprint_ticket_count = 3
  /\ ticket_summary.open_ticket_count = 1

\* A ticket the classifier treats as active work.
ActiveWork(ticket) ==
  /\ ticket.state > InScope
  /\ ticket.state # Done
  /\ ticket.state # DemoFinalApproval
  /\ ~ticket.moved_out_of_sprint

\* C26: an active-work ticket is in blocked_prs exactly when it has a
\* non-draft PR that is not merged and is not mergeable or has failing
\* checks, in open_prs exactly when it has a non-draft PR that is not
\* blocked, and in open_tickets exactly when it has no PR or a draft PR.
C26_ActiveWorkBucketFollowsPr ==
  \A i \in 1..Len(result_tickets) :
    ActiveWork(result_tickets[i]) =>
      LET t == result_tickets[i]
          nonDraft == t.pr # None /\ ~t.pr[1].is_draft
          blocked == /\ nonDraft
                     /\ ~t.pr[1].merged
                     /\ (t.pr[1].mergeable # "true" \/ t.pr[1].failing_check_runs > 0)
      IN /\ CountIn(ticket_summary.blocked_prs, t.id) = (IF blocked THEN 1 ELSE 0)
         /\ CountIn(ticket_summary.open_prs, t.id) = (IF nonDraft /\ ~blocked THEN 1 ELSE 0)
         /\ CountIn(ticket_summary.open_tickets, t.id) = (IF ~nonDraft THEN 1 ELSE 0)

C26_Witness ==
  /\ Classified
  /\ Len(result_tickets) = 1
  /\ ActiveWork(result_tickets[1])
  /\ result_tickets[1].pr = Some(PullRequest(FALSE, FALSE, "true", 1))
  /\ BucketIds(ticket_summary.blocked_prs) = << "T1" >>

\* C27: in every bucket no ticket without the Goal label precedes a ticket
\* with it, whatever the order of the input list.
C27_GoalTicketsLead ==
  \A b \in 1..Len(Buckets) :
    \A i \in 1..Len(Buckets[b]), j \in 1..Len(Buckets[b]) :
      i < j /\ Buckets[b][j].is_goal => Buckets[b][i].is_goal

C27_Witness ==
  /\ Classified
  /\ Len(result_tickets) = 3
  /\ ~result_tickets[1].is_goal /\ result_tickets[2].is_goal /\ result_tickets[3].is_goal
  /\ BucketIds(ticket_summary.open_tickets) = << "T3", "T2", "T1" >>

\* A ticket at or below InScope that is not marked as moved out of the sprint.
OutOfSprintScope(ticket) == ticket.state <= InScope /\ ~ticket.moved_out_of_sprint

\* C28 as stated: a ticket at or below InScope that is not moved out is in no
\* bucket and not counted in sprint_ticket_count, and taking it into the list
\* raises project_ticket_count_in_scope by one.
C28_AsStated ==
  \A i \in 1..Len(result_tickets) :
    OutOfSprintScope(result_tickets[i]) =>
      LET rest == TicketSummaryFrom(Without(result_tickets, i))
      IN /\ \A b \in 1..Len(Buckets) : CountIn(Buckets[b], result_tickets[i].id) = 0
         /\ ticket_summary.sprint_ticket_count = rest.sprint_ticket_count
         /\ ticket_summary.project_ticket_count_in_scope =
              rest.project_ticket_count_in_scope + 1

\* C28: a ticket at or below InScope that is not moved out is in no bucket and
\* not counted in sprint_ticket_count; against the summary of the list
\* without it, the buckets, sprint_ticket_count, open_ticket_count and the
\* completed percentage are the same, project_ticket_count is one more, and
\* project_ticket_count_in_scope is one more when its state is InScope and
\* the same when its state is below InScope.
C28_OutOfScopeTicketOnlyCounted ==
  \A i \in 1..Len(result_tickets) :
    OutOfSprintScope(result_tickets[i]) =>
      LET rest == TicketSummaryFrom(Without(result_tickets, i))
      IN /\ \A b \in 1..Len(Buckets) : CountIn(Buckets[b], result_tickets[i].id) = 0
         /\ ticket_summary =
              [rest EXCEPT
                 !.project_ticket_count = @ + 1,
                 !.project_ticket_count_in_scope =
                    IF result_tickets[i].state = InScope THEN @ + 1 ELSE @]

C28_Witness ==
  /\ Classified
  /\ Len(result_tickets) = 3
  /\ result_tickets[1].state = Done
  /\ result_tickets[2].state = BacklogIdeas /\ OutOfSprintScope(result_tickets[2])
  /\ result_tickets[3].state = InScope /\ OutOfSprintScope(result_tickets[3])
  /\ ticket_summary.project_ticket_count = 3
  /\ ticket_summary.project_ticket_count_in_scope = 1
  /\ ticket_summary.sprint_ticket_count = 1

\* C30: when the PR lookup of a live ticket fails, the invocation is aborted
\* (the failure is not swallowed), no summary and no reconciled ticket is
\* produced, and the invocation makes no persistence write and no scheduler
\* call: the documents and the rules are as before.
C30_PrLookupFailureIsFatal ==
  [][failed_call' = "fetch_pr_details" =>
       /\ outcome' = "Panicked"
       /\ ticket_summary' = EmptySummary
       /\ result_tickets' = << >>
       /\ CallSet' \cap (WriteCalls \cup SchedulerCalls) = {}
       /\ response' = NoResponse
       /\ UNCHANGED << sprint_data, ticket_data, historical_data, rules >>]_vars

C30_Witness ==
  /\ failed_call = "fetch_pr_details"
  /\ outcome = "Panicked"
  /\ event = ScheduledTrigger
  /\ ActiveExists
  /\ calls[Len(calls)] = "fetch_pr_details"

\* C37: project_ticket_count_in_scope is the number of input tickets whose
\* state is exactly InScope, those left out of every bucket and those placed
\* in deferred alike.
C37_InScopeCounterCountsInScopeTickets ==
  ticket_summary.project_ticket_count_in_scope =
    Cardinality({i \in 1..Len(result_tickets) : result_tickets[i].state = InScope})

C37_Witness ==
  /\ Classified
  /\ Len(result_tickets) = 3
  /\ result_tickets[1].state = InScope /\ ~result_tickets[1].moved_out_of_sprint
  /\ result_tickets[2].state = InScope /\ result_tickets[2].moved_out_of_sprint
  /\ result_tickets[3].state = BacklogIdeas
  /\ BucketIds(ticket_summary.deferred_tickets) = << "T2" >>
  /\ ticket_summary.sprint_ticket_count = 1
  /\ ticket_summary.project_ticket_count_in_scope = 2

\* The documents and rules the invocation of the given event leaves behind
\* when none of its calls fails.
SavedBy(ev) ==
  LET w == function_handler(World(sprint_data, ticket_data, historical_data, rules),
                            ev, FaultFeed, 0, today).w
  IN << w.sprint_data, w.ticket_data, w.historical_data, w.rules >>

\* C35: in one invocation a report that cannot be composed stops the run before
\* any write or scheduler call; the report is delivered after every write and
\* scheduler call; and when the delivery fails the invocation still returns
\* and the documents and rules are exactly those the same invocation leaves
\* when the delivery succeeds.
C35_ComposeThenSaveThenDeliver ==
  [][today' = today =>
       /\ (outcome' = "Panicked" /\ save_status' = "NotRun") =>
            /\ CallSet' \cap (WriteCalls \cup SchedulerCalls \cup {"send_teams_message"}) = {}
            /\ UNCHANGED << sprint_data, ticket_data, historical_data, rules >>
       /\ \A i \in 1..Len(calls') :
            calls'[i] = "send_teams_message" => i = Len(calls')
       /\ failed_call' = "send_teams_message" =>
            /\ outcome' = "Returned"
            /\ save_status' = "Ok"
            /\ response' = Response("json", "Error processing command")
            /\ << sprint_data', ticket_data', historical_data', rules' >> = SavedBy(event')]_vars

C35_Witness ==
  /\ failed_call = "send_teams_message"
  /\ event.command = "/sprint-kickoff-confirm"
  /\ ActiveExists
  /\ rules[sprint_data[1].name] # NoRule
  /\ ticket_data # None
  /\ response = Response("json", "Error processing command")

\* The last invocation issued the Review command and left no active context.
ReviewIssued ==
  /\ sprint_command_result.status = "Ok"
  /\ sprint_command_result.cmd.type = "SprintReview"
  /\ ~ActiveExists

\* C31: after a successful kickoff, with the scheduled trigger firing once on
\* every following day and no call failing, a Review command is eventually
\* issued and the active context cleared.  Every end date comes before the
\* horizon, so by the horizon day the Review has been issued: the sprint is
\* not still active and the last invocation was not another DailySummary.
C31_ReviewIssuedByHorizon ==
  today = ScheduleHorizon => ReviewIssued

\* C32: after any sequence of triggers processed from an empty history, no two
\* entries of the cumulative history have the same sprint name.
C32_HistoryNamesDistinct ==
  \A i, j \in 1..Len(History) :
    i # j => History[i].name # History[j].name

\* C33: a ticket that is in the live source with a state above InScope in two
\* consecutive Kickoff/DailySummary runs of one sprint is reported by the
\* later run with the added_on and added_in_sprint of the earlier one (and so,
\* run after run, with those of the first), whichever states it passes through.
C33_AddedOnCarriedThroughRuns ==
  [][(RunOk /\ RunOk' /\ sprint_data # None /\ sprint_data' = sprint_data) =>
       \A i \in 1..Len(result_tickets), j \in 1..Len(result_tickets') :
         /\ result_tickets[i].id = result_tickets'[j].id
         /\ result_tickets[i].state > InScope
         /\ result_tickets'[j].state > InScope
         => /\ result_tickets'[j].added_on = result_tickets[i].added_on
            /\ result_tickets'[j].added_in_sprint = result_tickets[i].added_in_sprint]_vars

\* C34: a DailySummary applied a second time on the same day, with the same
\* live tickets, PR data and history, persists the snapshot set the first one
\* persisted: the same snapshots, field by field, in the same order.
C34_SecondDailySummaryChangesNothing ==
  [][(/\ RunOk /\ sprint_command_result.cmd.type = "DailySummary"
      /\ RunOk' /\ sprint_command_result'.cmd.type = "DailySummary"
      /\ today' = today
      /\ current_ticket_details' = current_ticket_details
      /\ historical_data' = historical_data)
     => ticket_data' = ticket_data]_vars

\* C36: invocations are not protected against overlap.  Whenever two kickoffs
\* with different sprint names have both finished after each of them read the
\* store before either made a write, both report success, the one active
\* context persisted is that of the invocation that wrote it last, and the
\* scheduler holds a rule for each of the two sprint names.
OverlappedKickoffs ==
  \A p \in Procs : inflight.inv[p].pc = "done" /\ inflight.inv[p].read_before_writes

C36_OverlappingKickoffsBothSucceed ==
  (inflight # NoInflight /\ OverlappedKickoffs) =>
     /\ \A p \in Procs :
          inflight.inv[p].response = Response("json", "Processed command successfully")
     /\ Len(inflight.writers) = 2
     /\ sprint_data # None
     /\ sprint_data[1].name =
          KickoffOf(inflight.writers[Len(inflight.writers)]).args[2]
     /\ \A p \in Procs : rules[KickoffOf(p).args[2]] = DAILY_SUMMARY_TIME

C36_Witness ==
  /\ inflight # NoInflight
  /\ OverlappedKickoffs
  /\ inflight.writers = << 2, 1 >>
  /\ \A p \in Procs :
       inflight.inv[p].response = Response("json", "Processed command successfully")
  /\ sprint_data # None
  /\ sprint_data[1].name = "S1"
  /\ rules["S1"] # NoRule
  /\ rules["S2"] # NoRule

====
